---- MODULE Spec2Model ----
(***************************************************************************)
(* Data-access core of the GitHub dashboard extension:                     *)
(*   - GitHubApiClient.request: the retry / backoff state machine          *)
(*   - CacheManager: the TTL cache over chrome.storage.local               *)
(*   - github-api.ts: the per-resource fetch functions (DataService)       *)
(*   - service worker: the message listener and its handlers               *)
(*   - the aggregation views: grouping and sorting of the fetched lists    *)
(*   - content script: the sections shown for the answer to GET_DATA,      *)
(*     init(), the layout toggle and the SETTINGS_UPDATED notifications    *)
(*   - two message handlers interleaved at their awaits over one store     *)
(* Times are milliseconds (Date.now()).  Strings that the code builds by   *)
(* concatenation are sequences of their parts.                             *)
(***************************************************************************)
EXTENDS Integers, Sequences, FiniteSets, TLC

VARIABLES
    now,          \* Date.now(), ms
    \* ---- GitHubApiClient.request, one logical request at a time ----
    pc,           \* "idle" | "attempt" (fetch in flight) | "sleep" | "done" | "failed"
    retryCount,   \* the retryCount argument of the running request() call
    calls,        \* transport (fetch) calls issued for the logical request
    failures,     \* attempts of the logical request that ended in a retry-eligible kind
    seen,         \* the classes of outcome the attempts of the logical request ended in
    lastOutcome,  \* outcome of the most recent finished attempt
    computedAt,   \* Date.now() when the retry delay was computed
    delay,        \* the delay handed to sleep()
    issuedAt,     \* Date.now() when the running attempt was issued
    error,        \* the ApiError thrown to the caller of request()
    data,         \* the data of the ApiResponse returned to the caller
    token,        \* this.token of the client in use
    auth,         \* the credential in the Authorization header of the latest attempt
    startedWith,  \* this.token when the logical request was started
    \* ---- chrome.storage.local and the CacheManager on top of it ----
    store,        \* chrome.storage.local: a function from the keys present to their values
    ticks,        \* number of clock advances made by the environment
    written,      \* per cache key: the arguments and time of the latest set()
    lastOp,       \* the latest cache or settings operation, what it returned and, for
                  \* get and clearAll, the store it started from
    \* ---- github-api.ts fetch functions and handleGetData ----
    fn,           \* the fetch function that runs or ran last ("none" before the first)
    fpc,          \* "idle" | "api" (awaiting client.get) | "returned" | "threw"
    page,         \* fetchRepositories: page
    allRepos,     \* fetchRepositories: allRepos
    requests,     \* pages requested by the fetch so far, in request order (1 for a plain fetch)
    pageSizes,    \* sizes of the pages returned to the fetch so far, in order
    fetchResult,  \* what the fetch function returned or threw
    hpc,          \* handleGetData: "idle" | "repositories" | "issues" | "projects" | "responded"
    dataType,     \* message.dataType
    result,       \* handleGetData: the lists fetched so far
    response,     \* the envelope handed to sendResponse
    faults,       \* number of transport attempts that failed so far
    msg,          \* message.type of the message handled last ("none" before the first)
    notice,       \* the message notifySettingsUpdated sent to the github.com tabs last
    \* ---- the aggregation views of github-api.ts, applied to a list ----
    input,        \* the list handed to the function
    output,       \* what the function returned
    op,           \* the function applied last ("none" before the first)
    \* ---- message handlers of the service worker that run interleaved ----
    procs,        \* per handler invocation: its message, position and local values
    epoch,        \* number of REFRESH_DATA requests answered so far
    lastSaved,    \* layout of the SAVE_SETTINGS request answered last ("none" before)
    \* ---- content-script.ts ----
    cpc,                    \* init(): "start" | "loading" | "loaded" | "ready"
    currentSettings,        \* currentSettings ("null" before the settings are loaded)
    isCustomLayoutActive,   \* isCustomLayoutActive
    layoutToggleListener,   \* a change listener is attached to the layout toggle
    isFetchingData,         \* isFetchingData
    unanswered,             \* GET_DATA messages sent and not answered yet
    headerLoading,          \* the loading indicator of the header is active
    shown                   \* what the sections show

clientVars == <<pc, retryCount, calls, failures, seen, lastOutcome, computedAt, delay, issuedAt, error, data,
               auth, startedWith>>

cacheVars == <<store, ticks, written, lastOp>>

dataVars == <<fn, fpc, page, allRepos, requests, pageSizes, fetchResult,
              hpc, dataType, result, response, faults, msg, notice, input, output, op>>

listVars == <<input, output, op>>

raceVars == <<procs, epoch, lastSaved>>

contentVars == <<cpc, currentSettings, isCustomLayoutActive, layoutToggleListener,
                 isFetchingData, unanswered, headerLoading, shown>>

\* the handlers that run interleaved and the content script: left alone by the
\* specifications of one handler at a time
sideVars == <<raceVars, contentVars>>

\* ------------------------------------------------------------------------
\* Program constants
\* ------------------------------------------------------------------------
DEFAULT_TIMEOUT == 30000
MAX_RETRIES == 3
INITIAL_RETRY_DELAY == 1000
CACHE_KEY_PREFIX == "cache_"
\* perPage of fetchRepositories
PER_PAGE == 100
\* the page limit of fetchRepositories
MAX_PAGES == 10
\* the TTL, in seconds, the fetch functions hand to cache.set: 5 * 60
FETCH_TTL == 300

\* ------------------------------------------------------------------------
\* Bounds of the model
\* ------------------------------------------------------------------------
\* largest extra time a timer or a transport call takes beyond its minimum
MaxJitter == 1
\* largest number of seconds carried by a Retry-After header
MaxRetryAfter == 2
\* number of clock advances the environment makes between cache operations
MaxTicks == 2
\* largest TTL, in seconds, handed to set() by the callers of the cache model
MaxTtl == 1
\* number of transport attempts the environment lets fail in one behaviour
MaxFaults == 4

\* ------------------------------------------------------------------------
\* Values
\* ------------------------------------------------------------------------
Max(a, b) == IF a >= b THEN a ELSE b

RECURSIVE Pow2(_)
\* Math.pow(2, n)
Pow2(n) == IF n = 0 THEN 1 ELSE 2 * Pow2(n - 1)

\* headers.get(name): null when the header is absent, else its text; the
\* text of a numeric header is its sequence of decimal digits
NoHeader == [present |-> FALSE, digits |-> <<>>]
Header(ds) == [present |-> TRUE, digits |-> ds]

\* JavaScript truthiness of the string|null returned by headers.get
Truthy(h) == h.present /\ Len(h.digits) > 0

RECURSIVE parseInt(_)
\* parseInt(text, 10) of a string of decimal digits
parseInt(ds) ==
    IF Len(ds) = 0 THEN 0
    ELSE 10 * parseInt(SubSeq(ds, 1, Len(ds) - 1)) + ds[Len(ds)]

\* error bodies: unparsable, JSON without a message, JSON with a message
NoBody == [json |-> FALSE, message |-> ""]
Bodies == {NoBody, [json |-> TRUE, message |-> ""],
           [json |-> TRUE, message |-> "m1"], [json |-> TRUE, message |-> "m2"]}

NoError == [status |-> -1, message |-> <<>>]
NoOutcome == [kind |-> "none", status |-> -1, body |-> NoBody,
              retryAfter |-> NoHeader, reset |-> NoHeader, cause |-> ""]

\* the outcomes of one transport call
OkOutcome == [NoOutcome EXCEPT !.kind = "ok", !.status = 200]
\* 2xx whose body is not JSON: response.json() throws a SyntaxError
BadJsonOutcome == [NoOutcome EXCEPT !.kind = "badjson", !.status = 200, !.cause = "SyntaxError"]
\* fetch() rejects (TypeError: Failed to fetch)
NetworkOutcomes == {[NoOutcome EXCEPT !.kind = "network", !.cause = c] : c \in {"c1", "c2"}}
\* controller.abort() fired: fetch rejects with an AbortError
TimeoutOutcome == [NoOutcome EXCEPT !.kind = "timeout", !.cause = "AbortError"]

RetryAfterValues == {NoHeader} \cup {Header(<<d>>) : d \in {0, MaxRetryAfter}}
ResetValues == {NoHeader, Header(<<0>>), Header(<<3>>), Header(<<9>>)}
ErrorStatuses == {304, 401, 404, 429, 500, 503}

HttpOutcomes ==
    {[NoOutcome EXCEPT !.kind = "http", !.status = s, !.body = b] :
        s \in ErrorStatuses \ {429}, b \in Bodies}
    \cup
    {[NoOutcome EXCEPT !.kind = "http", !.status = 429, !.body = b,
                       !.retryAfter = ra, !.reset = rs] :
        b \in {NoBody, [json |-> TRUE, message |-> "m1"]},
        ra \in RetryAfterValues, rs \in ResetValues}

Outcomes == {OkOutcome, BadJsonOutcome, TimeoutOutcome} \cup NetworkOutcomes \cup HttpOutcomes

\* ------------------------------------------------------------------------
\* GitHubApiClient
\* ------------------------------------------------------------------------
\* a backoff that grows linearly instead of doubling
calculateRetryDelay_linear(rc) == INITIAL_RETRY_DELAY * rc

\* calculateRetryDelay
calculateRetryDelay(rc) == INITIAL_RETRY_DELAY * Pow2(rc)

\* a retry guard that is off by one
RetryAllowed_inclusive(rc) == rc <= MAX_RETRIES

\* the retry guard `retryCount < MAX_RETRIES` of request and handleErrorResponse
RetryAllowed(rc) == rc < MAX_RETRIES

\* a server-error test that also takes in the 4xx statuses
IsServerError_from400(status) == status >= 400

\* `status >= 500` of handleErrorResponse
IsServerError(status) == status >= 500

\* delay of the 429 branch of handleErrorResponse, computed at time t
RateLimitDelay(o, rc, t) ==
    IF Truthy(o.retryAfter) THEN parseInt(o.retryAfter.digits) * 1000
    ELSE IF Truthy(o.reset) THEN Max(0, parseInt(o.reset.digits) * 1000 - t)
    ELSE calculateRetryDelay(rc)

\* an error message that ignores the parsed body
MessageOr_fallbackOnly(body, fallback) == fallback

\* errorResponse?.message || fallback
MessageOr(body, fallback) ==
    IF body.json /\ body.message # "" THEN <<body.message>> ELSE fallback

\* a rate-limit error that falls back to the text of the other statuses
RateLimitError_http(o) ==
    [status |-> o.status, message |-> MessageOr(o.body, <<"HTTP ", o.status>>)]

\* new ApiError(errorResponse?.message || 'Rate limit exceeded', status)
RateLimitError(o) ==
    [status |-> o.status, message |-> MessageOr(o.body, <<"Rate limit exceeded">>)]

\* new ApiError(errorResponse?.message || `HTTP ${status}`, status)
HttpError(o) ==
    [status |-> o.status, message |-> MessageOr(o.body, <<"HTTP ", o.status>>)]

\* new ApiError(`Network error: ${error.message}`, 0)
NetworkError(o) == [status |-> 0, message |-> <<"Network error: ", o.cause>>]

\* new ApiError('Request timeout', 408)
TimeoutError == [status |-> 408, message |-> <<"Request timeout">>]

\* outcome kinds the retry policy may re-issue
EligibleKind(o) ==
    \/ o.kind \in {"network", "badjson"}
    \/ o.kind = "http" /\ (o.status = 429 \/ o.status >= 500)

\* class of an outcome: what the retry policy distinguishes
Class(o) ==
    IF o.kind # "http" THEN o.kind
    ELSE IF o.status = 429 THEN "429"
    ELSE IF o.status >= 500 THEN "5xx" ELSE "other"

\* await this.sleep(d), to be followed by request(endpoint, options, retryCount + 1)
SleepThenRetry(d) ==
    /\ pc' = "sleep"
    /\ delay' = d
    /\ computedAt' = now'
    /\ UNCHANGED <<retryCount, calls, issuedAt, error, data, auth, startedWith>>

\* a client that re-issues a successful attempt while retries remain
Resolve_retries(payload) ==
    IF RetryAllowed(retryCount)
    THEN SleepThenRetry(calculateRetryDelay(retryCount))
    ELSE /\ pc' = "done"
         /\ data' = payload
         /\ UNCHANGED <<retryCount, calls, computedAt, delay, issuedAt, error, auth,
                        startedWith>>

\* the caller gets the ApiResponse
Resolve(payload) ==
    /\ pc' = "done"
    /\ data' = payload
    /\ UNCHANGED <<retryCount, calls, computedAt, delay, issuedAt, error, auth, startedWith>>

\* the caller gets the ApiError
Reject(e) ==
    /\ pc' = "failed"
    /\ error' = e
    /\ UNCHANGED <<retryCount, calls, computedAt, delay, issuedAt, data, auth, startedWith>>

\* handleErrorResponse: the response is not ok.  request() returns this
\* promise without awaiting it, so what it throws is not caught by the
\* catch block of request().
handleErrorResponse(o) ==
    IF o.status = 429
    THEN IF RetryAllowed(retryCount)
         THEN SleepThenRetry(RateLimitDelay(o, retryCount, now'))
         ELSE Reject(RateLimitError(o))
    ELSE IF IsServerError(o.status) /\ RetryAllowed(retryCount)
         THEN SleepThenRetry(calculateRetryDelay(retryCount))
         ELSE Reject(HttpError(o))

\* a catch block that treats the AbortError like any other failure of fetch
requestCatch_retriesTimeout(o) ==
    IF RetryAllowed(retryCount)
    THEN SleepThenRetry(calculateRetryDelay(retryCount))
    ELSE Reject(IF o.kind = "timeout" THEN TimeoutError ELSE NetworkError(o))

\* the catch block of request(): fetch or response.json() threw
requestCatch(o) ==
    IF o.kind = "timeout"
    THEN Reject(TimeoutError)
    ELSE IF RetryAllowed(retryCount)
         THEN SleepThenRetry(calculateRetryDelay(retryCount))
         ELSE Reject(NetworkError(o))

\* request(): build the headers, Authorization from this.token as it is at
\* this call of request(), and issue fetch()
IssueAttempt(rc) ==
    /\ pc' = "attempt"
    /\ retryCount' = rc
    /\ issuedAt' = now'
    /\ auth' = token'

\* the transport call of the running attempt ends with outcome o after
\* `took` ms, and request() runs to its next await or to its end
AttemptEnds(o, payload, took) ==
    /\ pc = "attempt"
    /\ now' = now + (IF o.kind = "timeout" THEN DEFAULT_TIMEOUT ELSE took)
    /\ lastOutcome' = o
    /\ failures' = IF EligibleKind(o) THEN failures + 1 ELSE failures
    /\ seen' = seen \cup {Class(o)}
    /\ CASE o.kind = "ok" -> Resolve(payload)
         [] o.kind = "http" -> handleErrorResponse(o)
         [] OTHER -> requestCatch(o)

\* the timer of sleep() fires `late` ms after its delay, and the recursive
\* request(endpoint, options, retryCount + 1) issues the next attempt
SleepEnds(late) ==
    /\ pc = "sleep"
    /\ now' = Max(now, computedAt + delay) + late
    /\ IssueAttempt(retryCount + 1)
    /\ calls' = calls + 1
    /\ UNCHANGED <<failures, seen, lastOutcome, computedAt, delay, error, data, startedWith>>

\* a caller invokes client.get(endpoint): request(endpoint, options, 0)
StartRequest ==
    /\ pc \notin {"attempt", "sleep"}
    /\ now' = now
    /\ IssueAttempt(0)
    /\ calls' = 1
    /\ failures' = 0
    /\ seen' = {}
    /\ lastOutcome' = NoOutcome
    /\ error' = NoError
    /\ data' = "none"
    /\ startedWith' = token'
    /\ UNCHANGED <<computedAt, delay>>

\* ------------------------------------------------------------------------
\* utils/storage.ts and CacheManager
\* ------------------------------------------------------------------------
\* a prefix test that accepts every key
startsWith_any(key, prefix) == TRUE

\* key.startsWith(prefix); a key is the sequence of the parts it was built from
startsWith(key, prefix) == Len(key) >= 1 /\ key[1] = prefix

\* CacheManager.getCacheKey: `${CACHE_KEY_PREFIX}${key}`
getCacheKey(key) == <<CACHE_KEY_PREFIX>> \o key

\* the key saveSettings and getSettings use
SettingsKey == <<"settings">>

\* chrome.storage.local.set({[key]: value})
saveData(st, key, value) == [k \in DOMAIN st \cup {key} |-> IF k = key THEN value ELSE st[k]]

\* chrome.storage.local.remove(keys)
removeKeys(st, keys) == [k \in DOMAIN st \ keys |-> st[k]]

\* what get() hands to its caller: null or the data of the entry
Miss == [hit |-> FALSE, data |-> <<>>]
Hit(d) == [hit |-> TRUE, data |-> d]

\* the CacheEntry built by set(): ttl is converted from seconds to ms
CacheEntry(d, ttl, t) == [data |-> d, timestamp |-> t, ttl |-> ttl * 1000]

\* a TTL check that already expires an entry whose age equals its ttl
Expired_inclusive(entry, t) == t - entry.timestamp >= entry.ttl

\* the TTL check of get(): age > entry.ttl
Expired(entry, t) == t - entry.timestamp > entry.ttl

\* CacheManager.set: the store after set(key, data, ttl) at time t
cacheSet(st, key, d, ttl, t) == saveData(st, getCacheKey(key), CacheEntry(d, ttl, t))

\* CacheManager.delete: the store after delete(key)
cacheDelete(st, key) == removeKeys(st, {getCacheKey(key)})

\* CacheManager.get: what get(key) returns at time t
cacheGetResult(st, key, t) ==
    IF getCacheKey(key) \notin DOMAIN st THEN Miss
    ELSE IF Expired(st[getCacheKey(key)], t) THEN Miss
    ELSE Hit(st[getCacheKey(key)].data)

\* a get() that masks an expired entry without deleting it
cacheGetStore_masking(st, key, t) == st

\* CacheManager.get: the store after get(key) at time t
cacheGetStore(st, key, t) ==
    IF getCacheKey(key) \in DOMAIN st /\ Expired(st[getCacheKey(key)], t)
    THEN cacheDelete(st, key)
    ELSE st

\* CacheManager.clearAll: the store after clearAll()
cacheClearAll(st) ==
    removeKeys(st, {k \in DOMAIN st : startsWith(k, CACHE_KEY_PREFIX)})

\* ghost: nothing was set under the key yet
NoWrite == [set |-> FALSE, data |-> <<>>, storedAt |-> 0, ttl |-> 0,
            removed |-> FALSE, replaced |-> FALSE]

NoOp == [op |-> "none", key |-> <<>>, at |-> 0, result |-> Miss, before |-> <<>>]

\* the logical cache keys of github-api.ts used by the cache model
CacheKeys == {<<"repositories">>, <<"projects">>}

\* cache.set(key, d, ttl)
CacheSet(key, d, ttl) ==
    /\ store' = cacheSet(store, key, d, ttl, now)
    /\ written' = [written EXCEPT ![key] =
                      [set |-> TRUE, data |-> d, storedAt |-> now, ttl |-> ttl,
                       removed |-> FALSE,
                       replaced |-> /\ getCacheKey(key) \in DOMAIN store
                                    /\ store[getCacheKey(key)].data # d]]
    /\ lastOp' = [op |-> "set", key |-> key, at |-> now, result |-> Miss, before |-> <<>>]

\* cache.get(key)
CacheGet(key) ==
    /\ store' = cacheGetStore(store, key, now)
    /\ lastOp' = [op |-> "get", key |-> key, at |-> now,
                  result |-> cacheGetResult(store, key, now), before |-> store]
    /\ UNCHANGED written

\* cache.delete(key)
CacheDelete(key) ==
    /\ store' = cacheDelete(store, key)
    /\ written' = [written EXCEPT ![key].removed = TRUE]
    /\ lastOp' = [op |-> "delete", key |-> key, at |-> now, result |-> Miss, before |-> <<>>]

\* cache.clearAll()
CacheClearAll ==
    /\ store' = cacheClearAll(store)
    /\ written' = [k \in DOMAIN written |-> [written[k] EXCEPT !.removed = TRUE]]
    /\ lastOp' = [op |-> "clearAll", key |-> <<>>, at |-> now, result |-> Miss, before |-> store]

\* saveSettings(settings): chrome.storage.local.set({settings})
SaveSettings(settings) ==
    /\ store' = saveData(store, SettingsKey, settings)
    /\ lastOp' = [op |-> "saveSettings", key |-> SettingsKey, at |-> now,
                  result |-> Miss, before |-> <<>>]
    /\ UNCHANGED written

CacheInit(keys) ==
    /\ store = << >>
    /\ ticks = 0
    /\ written = [k \in keys |-> NoWrite]
    /\ lastOp = NoOp


\* ------------------------------------------------------------------------
\* utils/storage.ts: settings
\* ------------------------------------------------------------------------
\* DEFAULT_SETTINGS of types/settings.ts
DEFAULT_SETTINGS == [token |-> "", layout |-> "default"]

\* getSettings: result.settings || DEFAULT_SETTINGS
getSettings(st) == IF SettingsKey \in DOMAIN st THEN st[SettingsKey] ELSE DEFAULT_SETTINGS

\* getToken: settings.token || ''
getToken(st) == getSettings(st).token

\* initApiClient(t): a new client whose this.token is t replaces the instance
initApiClient(t) == token' = t

\* ------------------------------------------------------------------------
\* github-api.ts: the fetch functions
\* ------------------------------------------------------------------------
\* the fetch functions, named by their cache key
FetchFns == {"user", "organizations", "repositories", "issues_mentioned", "projects"}

\* const cacheKey = '...'
KeyOf(f) == <<f>>

NoResult == [ok |-> FALSE, value |-> <<>>, error |-> NoError]

\* the function returns v
Returned(v) ==
    /\ fpc' = "returned"
    /\ fetchResult' = [ok |-> TRUE, value |-> v, error |-> NoError]

\* the function throws e
Threw(e) ==
    /\ fpc' = "threw"
    /\ fetchResult' = [ok |-> FALSE, value |-> <<>>, error |-> e]

\* a fetch function is called: cache.get(cacheKey), then either the cached
\* value is returned or the first client.get is issued
FetchStart(f) ==
    /\ fn' = f
    /\ CacheGet(KeyOf(f))
    /\ UNCHANGED ticks
    /\ pageSizes' = <<>>
    /\ IF cacheGetResult(store, KeyOf(f), now).hit
       THEN /\ Returned(cacheGetResult(store, KeyOf(f), now).data)
            /\ requests' = <<>>
            /\ UNCHANGED <<now, clientVars, page, allRepos>>
       ELSE /\ fpc' = "api"
            /\ page' = 1
            /\ allRepos' = <<>>
            /\ requests' = <<1>>
            /\ fetchResult' = NoResult
            /\ StartRequest

\* a fetch that returns what the API gave without caching it
StoreAndReturn_uncached(f, v) ==
    /\ Returned(v)
    /\ UNCHANGED <<now, clientVars, cacheVars, page, requests>>

\* await cache.set(cacheKey, v, 5 * 60); return v
StoreAndReturn(f, v) ==
    /\ CacheSet(KeyOf(f), v, FETCH_TTL)
    /\ Returned(v)
    /\ UNCHANGED <<now, clientVars, ticks, page, requests>>

\* a page limit that already stops before the last allowed page
PageLimitReached_early(p) == p >= MAX_PAGES

\* `page > 10` of fetchRepositories
PageLimitReached(p) == p > MAX_PAGES

\* a pagination that stores what it has after every page
RepositoriesPage_storesEachPage(d) ==
    /\ pageSizes' = Append(pageSizes, Len(d))
    /\ IF Len(d) = 0
       THEN /\ allRepos' = allRepos
            /\ StoreAndReturn("repositories", allRepos)
       ELSE /\ allRepos' = allRepos \o d
            /\ CacheSet(KeyOf("repositories"), allRepos \o d, FETCH_TTL)
            /\ IF Len(d) < PER_PAGE \/ PageLimitReached(page + 1)
               THEN /\ Returned(allRepos \o d)
                    /\ page' = IF Len(d) < PER_PAGE THEN page ELSE page + 1
                    /\ UNCHANGED <<now, clientVars, ticks, requests>>
               ELSE /\ page' = page + 1
                    /\ requests' = Append(requests, page + 1)
                    /\ StartRequest
                    /\ UNCHANGED <<ticks, fpc, fetchResult>>

\* fetchRepositories after client.get returned the page `d`
RepositoriesPage(d) ==
    /\ pageSizes' = Append(pageSizes, Len(d))
    /\ IF Len(d) = 0
       THEN /\ allRepos' = allRepos
            /\ StoreAndReturn("repositories", allRepos)
       ELSE /\ allRepos' = allRepos \o d
            /\ IF Len(d) < PER_PAGE \/ PageLimitReached(page + 1)
               THEN /\ CacheSet(KeyOf("repositories"), allRepos \o d, FETCH_TTL)
                    /\ Returned(allRepos \o d)
                    /\ page' = IF Len(d) < PER_PAGE THEN page ELSE page + 1
                    /\ UNCHANGED <<now, clientVars, ticks, requests>>
               ELSE /\ page' = page + 1
                    /\ requests' = Append(requests, page + 1)
                    /\ StartRequest
                    /\ UNCHANGED <<cacheVars, fpc, fetchResult>>

\* a catch block that rethrows
ProjectsCatch_rethrow(e) ==
    /\ Threw(e)
    /\ UNCHANGED <<now, clientVars, cacheVars, page, allRepos, requests, pageSizes>>

\* the catch block of fetchProjects: return []
ProjectsCatch(e) ==
    /\ Returned(<<>>)
    /\ UNCHANGED <<now, clientVars, cacheVars, page, allRepos, requests, pageSizes>>

\* a fetch that swallows the error of client.get and returns nothing
Propagate_swallow(e) ==
    /\ Returned(<<>>)
    /\ UNCHANGED <<now, clientVars, cacheVars, page, allRepos, requests, pageSizes>>

\* fetchUser, fetchOrganizations, fetchRepositories, fetchMentionedIssues have
\* no try/catch around client.get: the ApiError leaves the function as it is
Propagate(e) ==
    /\ Threw(e)
    /\ UNCHANGED <<now, clientVars, cacheVars, page, allRepos, requests, pageSizes>>

\* the running fetch function continues after its client.get settled
FetchResume ==
    /\ fn \in FetchFns
    /\ fpc = "api"
    /\ pc \in {"done", "failed"}
    /\ UNCHANGED fn
    /\ IF pc = "failed"
       THEN IF fn = "projects" THEN ProjectsCatch(error) ELSE Propagate(error)
       ELSE IF fn = "repositories"
            THEN RepositoriesPage(data)
            ELSE /\ StoreAndReturn(fn, data)
                 /\ UNCHANGED <<allRepos, pageSizes>>

\* ------------------------------------------------------------------------
\* service worker: handleGetData and the message listener around it
\* ------------------------------------------------------------------------
DataTypes == {"all", "repositories", "issues", "projects"}

Unset == [set |-> FALSE, value |-> <<>>]
NoLists == [repositories |-> Unset, issues |-> Unset, projects |-> Unset]
NoData == <<>>
NoResponse == [sent |-> FALSE, success |-> FALSE, data |-> NoData, error |-> <<>>]

\* sendResponse({success: true, data: response}) with what the handler returned
SuccessWith(d) == [sent |-> TRUE, success |-> TRUE, data |-> d, error |-> <<>>]
\* the envelope of a GET_DATA that succeeded: its data are the lists in `result`
Success == SuccessWith(NoData)
\* sendResponse({success: false, error: error.message})
Failure(text) == [sent |-> TRUE, success |-> FALSE, data |-> NoData, error |-> text]

\* `API Error (${error.status}): ${error.message}`
ApiErrorText(e) == <<"API Error (", e.status, "): ">> \o e.message

\* the fetch function handleGetData calls at a stage
StageFn(stage) ==
    CASE stage = "repositories" -> "repositories"
      [] stage = "issues" -> "issues_mentioned"
      [] stage = "projects" -> "projects"

\* the stages handleGetData runs for a dataType, in order
Stages(dt) ==
    SelectSeq(<<"repositories", "issues", "projects">>, LAMBDA st : dt = "all" \/ dt = st)

\* the stage after `stage` for the dataType, or "responded" after the last
NextStage(dt, stage) ==
    LET after == SelectSeq(Stages(dt),
                           LAMBDA st : \/ stage = "repositories" /\ st # "repositories"
                                       \/ stage = "issues" /\ st = "projects")
    IN IF after = <<>> THEN "responded" ELSE Head(after)

\* new Date(d).getTime() of the updated_at strings that occur, in hours from
\* 2024-01-01T00:00:00Z (getTime() is 3600000 times this, plus a constant)
getTime(d) ==
    CASE d = "2024-01-01T01:00:00Z" -> 1
      [] d = "2024-01-01T02:00:00Z" -> 2
      [] d = "2024-01-01T03:00:00+01:00" -> 2
      [] d = "2024-01-01T05:00:00Z" -> 5
      [] d = "2024-01-01T07:00:00Z" -> 7
      [] d = "2024-01-01T09:00:00Z" -> 9

RECURSIVE InsertByUpdated(_, _)
\* position of x in an already sorted list: after every item that is not older
InsertByUpdated(sorted, x) ==
    IF sorted = <<>> THEN <<x>>
    ELSE IF getTime(Head(sorted).updated_at) >= getTime(x.updated_at)
         THEN <<Head(sorted)>> \o InsertByUpdated(Tail(sorted), x)
         ELSE <<x>> \o sorted

RECURSIVE sortByUpdated(_)
\* [...list].sort((a, b) => dateB - dateA): a stable sort, newest first
sortByUpdated(list) ==
    IF list = <<>> THEN <<>>
    ELSE InsertByUpdated(sortByUpdated(SubSeq(list, 1, Len(list) - 1)), list[Len(list)])

\* a sort of the issues that puts the oldest first
sortIssuesByUpdated_oldestFirst(issues) ==
    [i \in 1..Len(issues) |-> sortByUpdated(issues)[Len(issues) + 1 - i]]

\* sortIssuesByUpdated
sortIssuesByUpdated(issues) == sortByUpdated(issues)

\* sortProjectsByUpdated
sortProjectsByUpdated(projects) == sortByUpdated(projects)

\* sortRepositoriesByUpdated
sortRepositoriesByUpdated(repositories) == sortByUpdated(repositories)

\* the bucket of the repositories whose owner is not an organization
Personal == <<"Personal">>

\* repo.owner.type === 'Organization' ? repo.owner.login : 'Personal'.  A login
\* is the sequence of its characters, a run of letters standing for one
OrgOf(repo) == IF repo.owner.type = "Organization" THEN repo.owner.login ELSE Personal

\* index of the entry of a Map with the key, 0 when there is none
MapIndex(map, key) ==
    IF \E i \in 1..Len(map) : map[i].key = key
    THEN CHOOSE i \in 1..Len(map) : map[i].key = key
    ELSE 0

\* if (!grouped.has(org)) grouped.set(org, []); grouped.get(org).push(repo).
\* A Map is the sequence of its entries in insertion order
GroupPush(grouped, repo) ==
    IF MapIndex(grouped, OrgOf(repo)) = 0
    THEN Append(grouped, [key |-> OrgOf(repo), value |-> <<repo>>])
    ELSE [grouped EXCEPT ![MapIndex(grouped, OrgOf(repo))].value = Append(@, repo)]

RECURSIVE groupRepositoriesByOrganization(_)
\* groupRepositoriesByOrganization: repositories.forEach over a new Map
groupRepositoriesByOrganization(repositories) ==
    IF repositories = <<>> THEN <<>>
    ELSE GroupPush(groupRepositoriesByOrganization(SubSeq(repositories, 1, Len(repositories) - 1)),
                   repositories[Len(repositories)])

\* the decimal digits
DigitValue == [c \in {"0", "1", "2", "3", "4", "5", "6", "7", "8", "9"} |->
                 CASE c = "0" -> 0 [] c = "1" -> 1 [] c = "2" -> 2 [] c = "3" -> 3
                   [] c = "4" -> 4 [] c = "5" -> 5 [] c = "6" -> 6 [] c = "7" -> 7
                   [] c = "8" -> 8 [] c = "9" -> 9]

\* a property key that is an array index: the canonical decimal numeral of
\* an integer below 2^32 - 1 (every numeral of up to 9 digits is one; longer
\* logins of digits are not among the Owners)
IsArrayIndex(key) ==
    /\ key # <<>>
    /\ \A i \in 1..Len(key) : key[i] \in DOMAIN DigitValue
    /\ Len(key) > 1 => key[1] # "0"
    /\ Len(key) <= 9

\* the integer an array index denotes
IndexOf(key) == parseInt([i \in 1..Len(key) |-> DigitValue[key[i]]])

\* OrdinaryOwnPropertyKeys: array indices first, in ascending numeric order,
\* then the other string keys in the order the properties were created.
\* TRUE when key a, created i-th, is enumerated before key b, created j-th
OwnKeysBefore(a, b, i, j) ==
    IF IsArrayIndex(a)
    THEN IF IsArrayIndex(b) THEN IndexOf(a) < IndexOf(b) ELSE TRUE
    ELSE IF IsArrayIndex(b) THEN FALSE ELSE i < j

\* Object.entries of the object whose properties were created in the order of
\* `entries`: the place of entry i is one more than the entries before it
ObjectEntries(entries) ==
    LET place(i) == 1 + Cardinality({j \in 1..Len(entries) :
                                        j # i /\ OwnKeysBefore(entries[j].key, entries[i].key, j, i)})
    IN [p \in 1..Len(entries) |-> entries[CHOOSE i \in 1..Len(entries) : place(i) = p]]

\* handleGetData: sortedByOrg[org] = sortRepositoriesByUpdated(repos) for each
\* entry of the Map, then Object.entries(sortedByOrg).map(...)
RepositoriesView(repositories) ==
    LET grouped == groupRepositoriesByOrganization(repositories)
        sortedByOrg == [i \in 1..Len(grouped) |->
                          [key |-> grouped[i].key,
                           value |-> sortRepositoriesByUpdated(grouped[i].value)]]
        entries == ObjectEntries(sortedByOrg)
    IN [i \in 1..Len(entries) |->
          [organization |-> entries[i].key, repositories |-> entries[i].value]]

\* result.issues and result.projects of the GET_DATA response, from the lists fetched
ResponseIssues == sortIssuesByUpdated(result.issues.value)
ResponseProjects == sortProjectsByUpdated(result.projects.value)

\* a GET_DATA message arrives: getToken, initApiClient, the first fetch
GetDataStart(dt) ==
    /\ msg' = "GET_DATA"
    /\ dataType' = dt
    /\ result' = NoLists
    /\ IF getToken(store) = ""
       THEN /\ hpc' = "responded"
            /\ response' = Failure(<<"no token">>)
            /\ UNCHANGED <<now, token, clientVars, cacheVars, fn, fpc, page, allRepos,
                           requests, pageSizes, fetchResult>>
       ELSE /\ hpc' = Head(Stages(dt))
            /\ response' = NoResponse
            /\ initApiClient(getToken(store))
            /\ FetchStart(StageFn(Head(Stages(dt))))

\* handleGetData continues after the fetch of its stage settled
GetDataResume ==
    /\ hpc \in {"repositories", "issues", "projects"}
    /\ fpc \in {"returned", "threw"}
    /\ UNCHANGED <<dataType, msg>>
    /\ IF fpc = "threw"
       THEN /\ hpc' = "responded"
            /\ response' = Failure(ApiErrorText(fetchResult.error))
            /\ UNCHANGED <<now, clientVars, cacheVars, fn, fpc, page, allRepos,
                           requests, pageSizes, fetchResult, result>>
       ELSE /\ result' = [result EXCEPT ![hpc] = [set |-> TRUE, value |-> fetchResult.value]]
            /\ hpc' = NextStage(dataType, hpc)
            /\ IF NextStage(dataType, hpc) = "responded"
               THEN /\ response' = Success
                    /\ UNCHANGED <<now, clientVars, cacheVars, fn, fpc, page, allRepos,
                                   requests, pageSizes, fetchResult>>
               ELSE /\ response' = NoResponse
                    /\ FetchStart(StageFn(NextStage(dataType, hpc)))

\* ------------------------------------------------------------------------
\* content script: what fetchAndRenderData shows for the answer to GET_DATA(all)
\* ------------------------------------------------------------------------
SectionNames == {"repositories", "issues", "projects"}

\* renderData(response.data): a section is rendered when its list is in the data
renderData(lists) ==
    [sec \in SectionNames |-> IF lists[sec].set THEN "data" ELSE "loading"]

\* showDataError(response.error): renderSectionError on each of the three sections
showDataError == [sec \in SectionNames |-> "error"]

\* the sections once fetchAndRenderData has the answer, the custom layout active
Sections ==
    IF ~response.sent THEN [sec \in SectionNames |-> "loading"]
    ELSE IF response.success THEN renderData(result)
    ELSE showDataError

\* what the handlers that call no fetch function leave alone
fetchVars == <<fn, fpc, page, allRepos, requests, pageSizes, fetchResult>>

\* handleGetSettings: return await getSettings()
handleGetSettings ==
    /\ response' = SuccessWith(getSettings(store))
    /\ UNCHANGED <<now, token, clientVars, cacheVars, fetchVars, dataType, result>>

\* nothing was sent to a tab yet
NoNotice == [type |-> "none", settings |-> [token |-> "", layout |-> "none"]]

\* notifySettingsUpdated(settings): chrome.tabs.sendMessage(tab.id, {type:
\* 'SETTINGS_UPDATED', settings}) to every github.com dashboard tab, if there is one
notifySettingsUpdated(settings) ==
    \E tabs \in BOOLEAN :
        notice' = IF tabs THEN [type |-> "SETTINGS_UPDATED", settings |-> settings]
                          ELSE notice

\* handleSaveSettings: saveSettings(message.settings) rethrows a failure of the
\* store as Error; notifySettingsUpdated is not awaited and catches its errors
handleSaveSettings(settings, writable) ==
    /\ IF writable
       THEN /\ SaveSettings(settings)
            /\ notifySettingsUpdated(settings)
            /\ response' = SuccessWith([success |-> TRUE])
       ELSE /\ response' = Failure(<<"settings could not be saved">>)
            /\ UNCHANGED <<store, written, lastOp, notice>>
    /\ UNCHANGED <<now, token, clientVars, ticks, fetchVars, dataType, result>>

\* handleSaveToken: saveToken(message.token) reads the settings, sets their
\* token and saves them, and rethrows a failure of the store
handleSaveToken(t, writable) ==
    /\ IF writable
       THEN /\ SaveSettings([getSettings(store) EXCEPT !.token = t])
            /\ response' = SuccessWith([success |-> TRUE])
       ELSE /\ response' = Failure(<<"token could not be saved">>)
            /\ UNCHANGED <<store, written, lastOp>>
    /\ UNCHANGED <<now, token, clientVars, ticks, fetchVars, dataType, result>>

\* a refresh that answers without clearing anything
handleRefreshData_keep ==
    /\ response' = SuccessWith([success |-> TRUE, message |-> <<"cache cleared">>])
    /\ UNCHANGED <<now, token, clientVars, cacheVars, fetchVars, dataType, result>>

\* handleRefreshData: cache.clearAll(), which swallows its own errors
handleRefreshData ==
    /\ CacheClearAll
    /\ response' = SuccessWith([success |-> TRUE, message |-> <<"cache cleared">>])
    /\ UNCHANGED <<now, token, clientVars, ticks, fetchVars, dataType, result>>

\* a default branch that answers instead of throwing
handleUnknown_silent(type) ==
    /\ response' = SuccessWith(NoData)
    /\ UNCHANGED <<now, token, clientVars, cacheVars, fetchVars, dataType, result>>

\* default branch of handleMessage: throw new Error(`Unknown message type: ${type}`),
\* which the listener's catch turns into the failure envelope
handleUnknown(type) ==
    /\ response' = Failure(<<"Unknown message type: ", type>>)
    /\ UNCHANGED <<now, token, clientVars, cacheVars, fetchVars, dataType, result>>

\* validateToken(client) up to its await: client.get('/user'), no cache involved
validateTokenStart ==
    /\ fn' = "validateToken"
    /\ fpc' = "api"
    /\ page' = 1
    /\ allRepos' = <<>>
    /\ requests' = <<1>>
    /\ pageSizes' = <<>>
    /\ fetchResult' = NoResult
    /\ StartRequest

\* a catch block of validateToken that rethrows
validateTokenCatch_rethrow(e) == Threw(e)

\* the catch block of validateToken: { valid: false, message: `...: ${error.message}` }
validateTokenCatch(e) ==
    Returned([valid |-> FALSE, message |-> <<"validation failed: ">> \o e.message])

\* validateToken after client.get('/user') settled
validateTokenResume ==
    /\ fn = "validateToken"
    /\ fpc = "api"
    /\ pc \in {"done", "failed"}
    /\ IF pc = "done"
       THEN Returned([valid |-> TRUE, message |-> <<"validation succeeded: ", data.login>>,
                      user |-> data])
       ELSE validateTokenCatch(error)
    /\ UNCHANGED <<now, clientVars, cacheVars, fn, page, allRepos, requests, pageSizes>>

\* handleValidateToken up to its first await that leaves the handler waiting
handleValidateToken ==
    /\ UNCHANGED <<cacheVars, dataType, result>>
    /\ IF getToken(store) = ""
       THEN /\ hpc' = "responded"
            /\ response' = SuccessWith([valid |-> FALSE, message |-> <<"no token">>])
            /\ UNCHANGED <<now, token, clientVars, fetchVars>>
       ELSE /\ hpc' = "validate"
            /\ response' = NoResponse
            /\ initApiClient(getToken(store))
            /\ validateTokenStart

\* handleValidateToken after validateToken settled: return result, or the
\* catch block's { valid: false, message: error.message }
handleValidateTokenResume ==
    /\ hpc = "validate"
    /\ fpc \in {"returned", "threw"}
    /\ hpc' = "responded"
    /\ response' = IF fpc = "returned"
                   THEN SuccessWith(fetchResult.value)
                   ELSE SuccessWith([valid |-> FALSE, message |-> fetchResult.error.message])
    /\ UNCHANGED <<now, token, clientVars, cacheVars, fetchVars, dataType, result, msg>>

\* the messages the content script and the options page send, and one of a
\* kind handleMessage has no case for
SavedSettings == {[token |-> "t2", layout |-> "l2"]}
Messages ==
    {[type |-> t] : t \in {"GET_SETTINGS", "VALIDATE_TOKEN", "REFRESH_DATA", "PING"}}
    \cup {[type |-> "SAVE_SETTINGS", settings |-> st] : st \in SavedSettings}
    \cup {[type |-> "SAVE_TOKEN", token |-> "t2"]}
    \cup {[type |-> "GET_DATA", dataType |-> dt] : dt \in DataTypes}

\* the listener: handleMessage(message).then(sendResponse success).catch(sendResponse
\* failure); `writable` tells whether chrome.storage.local.set succeeds
handleMessage(message, writable) ==
    /\ msg' = message.type
    /\ CASE message.type = "GET_DATA" ->
               GetDataStart(message.dataType) /\ UNCHANGED notice
         [] message.type = "VALIDATE_TOKEN" -> handleValidateToken /\ UNCHANGED notice
         [] message.type = "GET_SETTINGS" ->
               hpc' = "responded" /\ handleGetSettings /\ UNCHANGED notice
         [] message.type = "SAVE_SETTINGS" ->
               hpc' = "responded" /\ handleSaveSettings(message.settings, writable)
         [] message.type = "SAVE_TOKEN" ->
               hpc' = "responded" /\ handleSaveToken(message.token, writable)
                                  /\ UNCHANGED notice
         [] message.type = "REFRESH_DATA" ->
               hpc' = "responded" /\ handleRefreshData /\ UNCHANGED notice
         [] OTHER -> hpc' = "responded" /\ handleUnknown(message.type) /\ UNCHANGED notice

HandlerInit ==
    /\ fn = "none"
    /\ fpc = "idle"
    /\ page = 0
    /\ allRepos = <<>>
    /\ requests = <<>>
    /\ pageSizes = <<>>
    /\ fetchResult = NoResult
    /\ hpc = "idle"
    /\ dataType = "none"
    /\ result = NoLists
    /\ response = NoResponse
    /\ faults = 0
    /\ msg = "none"
    /\ notice = NoNotice

\* no handler runs interleaved with another
RaceIdle ==
    /\ procs = << >>
    /\ epoch = 0
    /\ lastSaved = "none"

\* let currentSettings: Settings | null = null
NoSettings == [token |-> "", layout |-> "null"]

\* the content script as it is loaded: the initial values of its variables
ContentIdle ==
    /\ cpc = "start"
    /\ currentSettings = NoSettings
    /\ isCustomLayoutActive = TRUE
    /\ layoutToggleListener = FALSE
    /\ isFetchingData = FALSE
    /\ unanswered = 0
    /\ headerLoading = FALSE
    /\ shown = "dashboard"

DataInit ==
    /\ HandlerInit
    /\ input = <<>>
    /\ output = <<>>
    /\ op = "none"
    /\ RaceIdle
    /\ ContentIdle

\* ------------------------------------------------------------------------
\* Specification of the client alone: one logical request
\* ------------------------------------------------------------------------
vars == <<now, token, clientVars, cacheVars, dataVars, sideVars>>

ClientInit ==
    /\ pc = "idle"
    /\ retryCount = 0
    /\ calls = 0
    /\ failures = 0
    /\ seen = {}
    /\ lastOutcome = NoOutcome
    /\ computedAt = 0
    /\ delay = 0
    /\ issuedAt = 0
    /\ error = NoError
    /\ data = "none"
    /\ token = "t1"
    /\ auth = ""
    /\ startedWith = ""

Init ==
    /\ now \in {0, 2500}
    /\ ClientInit
    /\ CacheInit(CacheKeys)
    /\ DataInit

Start ==
    /\ UNCHANGED token
    /\ pc = "idle"
    /\ StartRequest
    /\ UNCHANGED <<cacheVars, dataVars, sideVars>>

Respond ==
    /\ UNCHANGED token
    /\ \E o \in Outcomes, took \in 0..MaxJitter : AttemptEnds(o, "payload", took)
    /\ UNCHANGED <<cacheVars, dataVars, sideVars>>

Wake ==
    /\ UNCHANGED token
    /\ \E late \in 0..MaxJitter : SleepEnds(late)
    /\ UNCHANGED <<cacheVars, dataVars, sideVars>>

Next ==
    \/ Start
    \/ Respond
    \/ Wake

Spec == Init /\ [][Next]_vars

\* ------------------------------------------------------------------------
\* Specification of the cache: one caller, store operations that succeed
\* ------------------------------------------------------------------------
TickSteps == {1, 1000}
CacheData == {"d1", "d2"}
SettingsValues == {[token |-> "t1", layout |-> "l1"]}

InitCache ==
    /\ now = 0
    /\ ClientInit
    /\ CacheInit(CacheKeys)
    /\ DataInit

Tick ==
    /\ ticks < MaxTicks
    /\ \E dt \in TickSteps : now' = now + dt
    /\ ticks' = ticks + 1
    /\ UNCHANGED <<token, clientVars, dataVars, sideVars, store, written, lastOp>>

Set ==
    /\ \E k \in CacheKeys, d \in CacheData, ttl \in 0..MaxTtl : CacheSet(k, d, ttl)
    /\ UNCHANGED <<now, ticks, token, clientVars, dataVars, sideVars>>

Get ==
    /\ \E k \in CacheKeys : CacheGet(k)
    /\ UNCHANGED <<now, ticks, token, clientVars, dataVars, sideVars>>

Delete ==
    /\ \E k \in CacheKeys : CacheDelete(k)
    /\ UNCHANGED <<now, ticks, token, clientVars, dataVars, sideVars>>

ClearAll ==
    /\ CacheClearAll
    /\ UNCHANGED <<now, ticks, token, clientVars, dataVars, sideVars>>

PutSettings ==
    /\ \E s \in SettingsValues : SaveSettings(s)
    /\ UNCHANGED <<now, ticks, token, clientVars, dataVars, sideVars>>

NextCache ==
    \/ Tick
    \/ Set
    \/ Get
    \/ Delete
    \/ ClearAll
    \/ PutSettings

SpecCache == InitCache /\ [][NextCache]_vars

\* ------------------------------------------------------------------------
\* Specification of the DataService: the first call a freshly started service
\* worker serves, a fetch function called directly or a GET_DATA message, over
\* the client and the store an earlier run of the worker left behind
\* ------------------------------------------------------------------------
\* resource records as the API returns them
Item(id, updated) == [id |-> id, updated_at |-> updated]

\* page p of /user/repos holding n repositories
RepoPage(p, n) == [i \in 1..n |-> <<p, i>>]

\* what a 2xx response to the running fetch's request may carry
Payloads ==
    CASE fn = "repositories" -> {RepoPage(page, n) : n \in {0, 37, PER_PAGE - 1, PER_PAGE}}
      [] fn \in {"user", "validateToken"} -> {[login |-> "u1"]}
      [] fn = "organizations" -> {<<[login |-> "o1"]>>}
      [] OTHER -> {<<>>, <<Item(1, "2024-01-01T05:00:00Z"), Item(2, "2024-01-01T07:00:00Z")>>}

\* the failures the environment injects into a fetch
DataFailures ==
    {[NoOutcome EXCEPT !.kind = "http", !.status = 401, !.body = [json |-> TRUE, message |-> "m1"]],
     [NoOutcome EXCEPT !.kind = "http", !.status = 503],
     [NoOutcome EXCEPT !.kind = "network", !.cause = "c1"],
     TimeoutOutcome}

\* the cache entries an earlier run of the worker may have left in the store
CachedBefore == {{}, {"projects"}, FetchFns}

\* the data an earlier fetch of f cached
CachedData(f) ==
    CASE f = "repositories" -> RepoPage(1, 2)
      [] f = "user" -> [login |-> "u1"]
      [] f = "organizations" -> <<[login |-> "o1"]>>
      [] OTHER -> <<Item(3, "2024-01-01T09:00:00Z")>>

RECURSIVE StoreWith(_, _)
\* the store after cache.set of every f in fs at time 0
StoreWith(st, fs) ==
    IF fs = {} THEN st
    ELSE LET f == CHOOSE x \in fs : TRUE
         IN StoreWith(cacheSet(st, KeyOf(f), CachedData(f), FETCH_TTL, 0), fs \ {f})

InitData ==
    /\ now = 0
    /\ ClientInit
    /\ \E settings \in {<< >>, saveData(<< >>, SettingsKey, [token |-> "t1", layout |-> "l1"])},
          fs \in CachedBefore :
          /\ store = StoreWith(settings, fs)
          /\ written = [k \in {KeyOf(f) : f \in FetchFns} |->
                           IF k[1] \in fs
                           THEN [NoWrite EXCEPT !.set = TRUE, !.data = CachedData(k[1]),
                                                !.ttl = FETCH_TTL]
                           ELSE NoWrite]
    /\ ticks = 0
    /\ lastOp = NoOp
    /\ DataInit

\* the service worker has just started: nothing was called yet
NoCallYet ==
    /\ fn = "none"
    /\ fpc = "idle"
    /\ hpc = "idle"

\* a fetch function is called directly
CallFetch ==
    /\ UNCHANGED token
    /\ NoCallYet
    /\ \E f \in FetchFns : FetchStart(f)
    /\ UNCHANGED <<hpc, dataType, result, response, faults, msg, listVars, notice, sideVars>>

\* a GET_DATA message is received
GetData ==
    /\ NoCallYet
    /\ \E dt \in DataTypes : GetDataStart(dt)
    /\ UNCHANGED <<faults, listVars, notice, sideVars>>

\* a message other than GET_DATA is received
Receive ==
    /\ NoCallYet
    /\ \E message \in {m \in Messages : m.type # "GET_DATA"}, writable \in BOOLEAN :
          handleMessage(message, writable)
    /\ UNCHANGED <<faults, listVars, sideVars>>

\* validateToken continues after its client.get settled
ValidateContinues ==
    /\ validateTokenResume
    /\ UNCHANGED <<token, hpc, dataType, result, response, faults, msg, listVars, notice, sideVars>>

\* handleValidateToken continues after validateToken settled
ValidateResponds ==
    /\ handleValidateTokenResume
    /\ UNCHANGED <<faults, listVars, notice, sideVars>>

ApiSucceeds ==
    /\ UNCHANGED token
    /\ fpc = "api"
    /\ \E payload \in Payloads : AttemptEnds(OkOutcome, payload, 0)
    /\ UNCHANGED <<cacheVars, dataVars, sideVars>>

ApiFails ==
    /\ UNCHANGED token
    /\ fpc = "api"
    /\ faults < MaxFaults
    /\ faults' = faults + 1
    /\ \E o \in DataFailures : AttemptEnds(o, <<>>, 0)
    /\ UNCHANGED <<cacheVars, fn, fpc, page, allRepos, requests, pageSizes, fetchResult,
                   hpc, dataType, result, response, msg, listVars, notice, sideVars>>

ApiWakes ==
    /\ UNCHANGED token
    /\ fpc = "api"
    /\ SleepEnds(0)
    /\ UNCHANGED <<cacheVars, dataVars, sideVars>>

FetchContinues ==
    /\ UNCHANGED token
    /\ FetchResume
    /\ UNCHANGED <<hpc, dataType, result, response, faults, msg, listVars, notice, sideVars>>

GetDataContinues ==
    /\ UNCHANGED token
    /\ GetDataResume
    /\ UNCHANGED <<faults, listVars, notice, sideVars>>

NextData ==
    \/ CallFetch
    \/ GetData
    \/ ApiSucceeds
    \/ ApiFails
    \/ ApiWakes
    \/ FetchContinues
    \/ GetDataContinues
    \/ Receive
    \/ ValidateContinues
    \/ ValidateResponds

SpecData == InitData /\ [][NextData]_vars

\* ------------------------------------------------------------------------
\* Specifications of a running service worker: one call after another, each
\* started when the one before it is over
\* ------------------------------------------------------------------------
\* how long the worker may stay quiet between two calls, ms
Pauses == {1, FETCH_TTL * 1000}

\* what a 2xx response carries in these specifications: one page per resource
WorkerPayloads ==
    CASE fn = "repositories" -> {RepoPage(page, 2)}
      [] fn \in {"user", "validateToken"} -> {[login |-> "u1"]}
      [] fn = "organizations" -> {<<[login |-> "o1"]>>}
      [] OTHER -> {<<Item(1, "2024-01-01T05:00:00Z"), Item(2, "2024-01-01T07:00:00Z")>>}

\* a failure that is not retried
WorkerFailure ==
    [NoOutcome EXCEPT !.kind = "http", !.status = 401, !.body = [json |-> TRUE, message |-> "m1"]]

InitWorker ==
    /\ now = 0
    /\ ClientInit
    /\ store = saveData(<< >>, SettingsKey, [token |-> "t1", layout |-> "l1"])
    /\ written = [k \in {KeyOf(f) : f \in FetchFns} |-> NoWrite]
    /\ ticks = 0
    /\ lastOp = NoOp
    /\ DataInit

\* no call is running
Quiet ==
    /\ hpc \in {"idle", "responded"}
    /\ fpc # "api"

Later ==
    /\ Quiet
    /\ ticks < MaxTicks
    /\ \E d \in Pauses : now' = now + d
    /\ ticks' = ticks + 1
    /\ UNCHANGED <<token, clientVars, dataVars, sideVars, store, written, lastOp>>

\* a fetch function is called directly, the same one call after call
Refetch ==
    /\ UNCHANGED token
    /\ Quiet
    /\ \E f \in FetchFns :
          /\ fn \in {"none", f}
          /\ FetchStart(f)
    /\ UNCHANGED <<hpc, dataType, result, response, faults, msg, listVars, notice, sideVars>>

\* a GET_DATA or a REFRESH_DATA message is received
WorkerReceive ==
    /\ Quiet
    /\ \E message \in {m \in Messages : m.type \in {"GET_DATA", "REFRESH_DATA"}} :
          handleMessage(message, TRUE)
    /\ UNCHANGED <<faults, listVars, sideVars>>

WorkerApiSucceeds ==
    /\ UNCHANGED token
    /\ fpc = "api"
    /\ \E payload \in WorkerPayloads : AttemptEnds(OkOutcome, payload, 0)
    /\ UNCHANGED <<cacheVars, dataVars, sideVars>>

WorkerApiFails ==
    /\ UNCHANGED token
    /\ fpc = "api"
    /\ AttemptEnds(WorkerFailure, <<>>, 0)
    /\ UNCHANGED <<cacheVars, dataVars, sideVars>>

\* one resource fetched again and again while time passes
NextRefetch ==
    \/ Later
    \/ Refetch
    \/ WorkerApiSucceeds
    \/ WorkerApiFails
    \/ FetchContinues

SpecRefetch == InitWorker /\ [][NextRefetch]_vars

\* GET_DATA and REFRESH_DATA messages in any order while time passes
NextWorker ==
    \/ Later
    \/ WorkerReceive
    \/ WorkerApiSucceeds
    \/ WorkerApiFails
    \/ FetchContinues
    \/ GetDataContinues

SpecWorker == InitWorker /\ [][NextWorker]_vars

\* ------------------------------------------------------------------------
\* Specification of the client under credential rotation: one logical
\* request, setToken called at any moment
\* ------------------------------------------------------------------------
Tokens == {"t1", "t2"}

\* setToken(t): this.token = t
setToken(t) == token' = t

\* the owner of the client rotates the credential
Rotate ==
    /\ \E t \in Tokens \ {token} : setToken(t)
    /\ UNCHANGED <<now, clientVars, cacheVars, dataVars, sideVars>>

\* the transport call of the running attempt ends
TokenRespond ==
    /\ UNCHANGED token
    /\ \E o \in DataFailures \cup {OkOutcome} : AttemptEnds(o, "payload", 0)
    /\ UNCHANGED <<cacheVars, dataVars, sideVars>>

NextToken ==
    \/ Start
    \/ Rotate
    \/ TokenRespond
    \/ Wake

SpecToken == Init /\ [][NextToken]_vars

\* ------------------------------------------------------------------------
\* Specification of the aggregation views: each function applied to a list
\* ------------------------------------------------------------------------
\* longest list handed to a function
MaxLen == 3

\* owners of repositories: organizations, one of them named like the personal
\* bucket and two with numeric logins, and a user
Owners ==
    {[login |-> <<"ac">>, type |-> "Organization"],
     [login |-> <<"4", "2">>, type |-> "Organization"],
     [login |-> <<"7">>, type |-> "Organization"],
     [login |-> <<"Personal">>, type |-> "Organization"],
     [login |-> <<"u", "1">>, type |-> "User"]}

\* the updated_at of the records: two instants, one of them written in two ways
UpdatedAts == {"2024-01-01T05:00:00Z", "2024-01-01T02:00:00Z", "2024-01-01T03:00:00+01:00"}

\* the records a list may hold at one place
Records == [owner : Owners, updated_at : UpdatedAts]

\* the lists of n records, the id of a record being its place in the list
ListsOf(n) ==
    {[i \in 1..n |-> [id |-> i, owner |-> f[i].owner, updated_at |-> f[i].updated_at]] :
        f \in [1..n -> Records]}

InitLists ==
    /\ now = 0
    /\ ClientInit
    /\ CacheInit(CacheKeys)
    /\ HandlerInit
    /\ \E n \in 0..MaxLen : input \in ListsOf(n)
    /\ output = <<>>
    /\ op = "none"
    /\ RaceIdle
    /\ ContentIdle

\* what applying a function to the list leaves alone: the functions copy
\* ([...list], a new Map, a new object) and never write to their argument
ListFrame ==
    UNCHANGED <<input, now, token, clientVars, cacheVars, fetchVars,
                hpc, dataType, result, response, faults, msg, notice, sideVars>>

Group ==
    /\ op' = "groupRepositoriesByOrganization"
    /\ output' = groupRepositoriesByOrganization(input)
    /\ ListFrame

SortRepositories ==
    /\ op' = "sortRepositoriesByUpdated"
    /\ output' = sortRepositoriesByUpdated(input)
    /\ ListFrame

SortIssues ==
    /\ op' = "sortIssuesByUpdated"
    /\ output' = sortIssuesByUpdated(input)
    /\ ListFrame

SortProjects ==
    /\ op' = "sortProjectsByUpdated"
    /\ output' = sortProjectsByUpdated(input)
    /\ ListFrame

\* the repositories branch of handleGetData on the list fetchRepositories returned
ViewRepositories ==
    /\ op' = "handleGetData"
    /\ output' = RepositoriesView(input)
    /\ ListFrame

NextLists ==
    \/ Group
    \/ SortRepositories
    \/ SortIssues
    \/ SortProjects
    \/ ViewRepositories

SpecLists == InitLists /\ [][NextLists]_vars

\* ------------------------------------------------------------------------
\* Specification of the content script in one tab: init(), the layout
\* toggle, SETTINGS_UPDATED notifications and answers to GET_DATA
\* ------------------------------------------------------------------------
\* GET_DATA messages that may wait for their answer at one time
MaxPending == 2

\* the settings the service worker may hand to the content script
ContentSettings == [token : {"", " ", "t1", "t2"}, layout : {"l1", "l2"}]

\* token.trim() of the tokens above
trim(t) == IF t = " " THEN "" ELSE t

\* setupHeaderControls: the change listener is moved to the toggle of the layout
\* that was just built
setupHeaderControls == layoutToggleListener' = TRUE

\* fetchAndRenderData up to its await: nothing when the custom layout is off or
\* a fetch is marked as running, else the mark is set and GET_DATA is sent
fetchAndRenderData(active) ==
    IF ~active \/ isFetchingData
    THEN UNCHANGED <<isFetchingData, unanswered>>
    ELSE /\ unanswered < MaxPending
         /\ isFetchingData' = TRUE
         /\ unanswered' = unanswered + 1

\* fetchAndRenderData passes its guards: setHeaderLoadingState(true)
Sends(active) == active /\ ~isFetchingData

\* applyCustomizations with the settings and the mode as they are at the call
applyCustomizations(settings, active) ==
    IF settings = NoSettings \/ ~active
    THEN UNCHANGED <<layoutToggleListener, isFetchingData, unanswered, headerLoading, shown>>
    ELSE /\ setupHeaderControls
         /\ IF settings.token = "" \/ trim(settings.token) = ""
            THEN /\ shown' = "banner"
                 /\ headerLoading' = FALSE
                 /\ UNCHANGED <<isFetchingData, unanswered>>
            ELSE /\ shown' = "layout"
                 /\ headerLoading' = Sends(active)
                 /\ fetchAndRenderData(active)

\* a teardown that leaves the change listener on the toggle
teardownCustomLayout_keepsListener ==
    /\ headerLoading' = FALSE
    /\ isFetchingData' = FALSE
    /\ shown' = "dashboard"
    /\ UNCHANGED <<layoutToggleListener, unanswered>>

\* teardownCustomLayout: the listener is removed, the mark is cleared, the root
\* of the custom layout (the toggle in it) is removed from the page
teardownCustomLayout ==
    /\ headerLoading' = FALSE
    /\ layoutToggleListener' = FALSE
    /\ isFetchingData' = FALSE
    /\ shown' = "dashboard"
    /\ UNCHANGED unanswered

\* handleLayoutModeChange(useCustomLayout)
handleLayoutModeChange(useCustomLayout) ==
    IF isCustomLayoutActive = useCustomLayout
    THEN UNCHANGED <<isCustomLayoutActive, layoutToggleListener, isFetchingData,
                     unanswered, headerLoading, shown>>
    ELSE /\ isCustomLayoutActive' = useCustomLayout
         /\ IF useCustomLayout
            THEN applyCustomizations(currentSettings, useCustomLayout)
            ELSE teardownCustomLayout

\* handleSettingsUpdated(message): rebuildLayout, setupHeaderControls and
\* fetchAndRenderData, unless the custom layout is off
handleSettingsUpdated(settings) ==
    /\ currentSettings' = settings
    /\ IF ~isCustomLayoutActive
       THEN UNCHANGED <<layoutToggleListener, isFetchingData, unanswered, headerLoading, shown>>
       ELSE /\ setupHeaderControls
            /\ shown' = "layout"
            /\ headerLoading' = Sends(isCustomLayoutActive)
            /\ fetchAndRenderData(isCustomLayoutActive)

\* fetchAndRenderData after its await: renderData or showDataError on the
\* sections that are on the page, then the finally block
fetchAndRenderDataResume(success) ==
    /\ shown' = IF shown = "dashboard" THEN shown
                ELSE IF ~success THEN "error"
                ELSE IF isCustomLayoutActive THEN "data" ELSE shown
    /\ headerLoading' = FALSE
    /\ isFetchingData' = FALSE

\* what the content script leaves alone
ContentFrame == UNCHANGED <<now, token, clientVars, cacheVars, dataVars, raceVars>>

InitContent ==
    /\ now = 0
    /\ ClientInit
    /\ CacheInit(CacheKeys)
    /\ HandlerInit
    /\ input = <<>>
    /\ output = <<>>
    /\ op = "none"
    /\ RaceIdle
    /\ ContentIdle

\* init(): on a page that is not the dashboard it returns at once, on the
\* dashboard loadSettings sends GET_SETTINGS
ContentStart ==
    /\ cpc = "start"
    /\ \E isGitHubDashboard \in BOOLEAN :
          cpc' = IF isGitHubDashboard THEN "loading" ELSE "ready"
    /\ UNCHANGED <<currentSettings, isCustomLayoutActive, layoutToggleListener,
                   isFetchingData, unanswered, headerLoading, shown>>
    /\ ContentFrame

\* loadSettings gets its answer: the settings, or a failure that leaves
\* currentSettings as it is
SettingsLoaded ==
    /\ cpc = "loading"
    /\ cpc' = "loaded"
    /\ \E settings \in ContentSettings \cup {currentSettings} : currentSettings' = settings
    /\ UNCHANGED <<isCustomLayoutActive, layoutToggleListener, isFetchingData, unanswered,
                   headerLoading, shown>>
    /\ ContentFrame

\* init() goes on to applyCustomizations: at once when the document is
\* loaded, else when DOMContentLoaded fires
DomLoaded ==
    /\ cpc = "loaded"
    /\ cpc' = "ready"
    /\ applyCustomizations(currentSettings, isCustomLayoutActive)
    /\ UNCHANGED <<currentSettings, isCustomLayoutActive>>
    /\ ContentFrame

\* the change event of the layout toggle reaches the listener
ToggleChange ==
    /\ layoutToggleListener
    /\ \E checked \in BOOLEAN : handleLayoutModeChange(checked)
    /\ UNCHANGED <<cpc, currentSettings>>
    /\ ContentFrame

\* a SETTINGS_UPDATED notification arrives; the script ran to the first await
\* of init() when it was loaded
SettingsUpdated ==
    /\ cpc # "start"
    /\ \E settings \in ContentSettings : handleSettingsUpdated(settings)
    /\ UNCHANGED <<cpc, isCustomLayoutActive>>
    /\ ContentFrame

\* a GET_DATA message is answered, with success or with a failure
DataAnswered ==
    /\ unanswered > 0
    /\ unanswered' = unanswered - 1
    /\ \E success \in BOOLEAN : fetchAndRenderDataResume(success)
    /\ UNCHANGED <<cpc, currentSettings, isCustomLayoutActive, layoutToggleListener>>
    /\ ContentFrame

NextContent ==
    \/ ContentStart
    \/ SettingsLoaded
    \/ DomLoaded
    \/ ToggleChange
    \/ SettingsUpdated
    \/ DataAnswered

SpecContent == InitContent /\ [][NextContent]_vars

\* ------------------------------------------------------------------------
\* Specification of two message handlers that run interleaved in the service
\* worker.  Each handler serves one message; it runs from one await to the
\* next in one step, and a call to chrome.storage.local takes effect when it
\* is made.  GET_DATA asks for the mentioned issues.
\* ------------------------------------------------------------------------
Procs == {1, 2}

\* the resource the GET_DATA messages ask for, and its key in the store
RaceFn == "issues_mentioned"
RaceKey == getCacheKey(KeyOf(RaceFn))

\* what the API returned: the handler that fetched it, the credential of its
\* client and the number of refreshes answered when the request was issued
Datum(by, tok, ep) == [by |-> by, tok |-> tok, epoch |-> ep]
NoDatum == Datum(0, "", 0)

\* the issues an earlier GET_DATA stored under the credential t1
DatumBefore == Datum(0, "t1", 0)

NoEntry == [present |-> FALSE, entry |-> CacheEntry(NoDatum, 0, 0)]
NoAnswer == [sent |-> FALSE, success |-> FALSE, data |-> NoDatum]

IdleProc ==
    [type |-> "none", pc |-> "idle", arg |-> NoSettings, tok |-> "", startedAt |-> 0,
     settings |-> NoSettings, entry |-> NoEntry, keys |-> {}, missed |-> FALSE,
     issued |-> 0, fetched |-> NoDatum, answer |-> NoAnswer]

\* the messages the two handlers may get
RaceMessages ==
    {[type |-> "GET_DATA", arg |-> NoSettings],
     [type |-> "REFRESH_DATA", arg |-> NoSettings],
     [type |-> "SAVE_TOKEN", arg |-> [token |-> "t2", layout |-> "null"]],
     [type |-> "SAVE_SETTINGS", arg |-> [token |-> "t1", layout |-> "l2"]]}

\* sendResponse of the listener
Answer(p, success, d) ==
    [procs[p] EXCEPT !.pc = "done",
                     !.answer = [sent |-> TRUE, success |-> success, data |-> d]]

\* what a step of handler p leaves alone, the store apart
RaceFrame ==
    UNCHANGED <<now, token, clientVars, ticks, written, lastOp, fetchVars, hpc, dataType,
                result, response, faults, msg, listVars, contentVars>>

\* the time of the race, and the store it starts from: the settings, and no
\* issues, issues stored just now, or issues stored longer ago than their ttl
RaceNow == FETCH_TTL * 1000 + 1
RaceStores ==
    LET settings == saveData(<< >>, SettingsKey, [token |-> "t1", layout |-> "l1"])
    IN {settings,
        saveData(settings, RaceKey, CacheEntry(DatumBefore, FETCH_TTL, RaceNow)),
        saveData(settings, RaceKey, CacheEntry(DatumBefore, FETCH_TTL, 0))}

InitRace ==
    /\ now = RaceNow
    /\ ClientInit
    /\ store \in RaceStores
    /\ ticks = 0
    /\ written = [k \in CacheKeys |-> NoWrite]
    /\ lastOp = NoOp
    /\ HandlerInit
    /\ input = <<>>
    /\ output = <<>>
    /\ op = "none"
    /\ procs = [p \in Procs |-> IdleProc]
    /\ epoch = 0
    /\ lastSaved = "none"
    /\ ContentIdle

\* the listener gets a message and its handler runs to its first await:
\* handleGetData and saveToken call getSettings, clearAll reads the keys of
\* the store, saveSettings writes
RaceReceive(p, message) ==
    /\ procs[p].pc = "idle"
    /\ CASE message.type = "GET_DATA" ->
              /\ procs' = [procs EXCEPT ![p] =
                    [@ EXCEPT !.type = message.type, !.pc = "getToken",
                              !.tok = getToken(store), !.startedAt = epoch]]
              /\ UNCHANGED <<store, lastSaved>>
         [] message.type = "REFRESH_DATA" ->
              /\ procs' = [procs EXCEPT ![p] =
                    [@ EXCEPT !.type = message.type, !.pc = "clearAll",
                              !.keys = {k \in DOMAIN store : startsWith(k, CACHE_KEY_PREFIX)}]]
              /\ UNCHANGED <<store, lastSaved>>
         [] message.type = "SAVE_TOKEN" ->
              /\ procs' = [procs EXCEPT ![p] =
                    [@ EXCEPT !.type = message.type, !.pc = "getSettings",
                              !.arg = message.arg, !.settings = getSettings(store)]]
              /\ UNCHANGED <<store, lastSaved>>
         [] message.type = "SAVE_SETTINGS" ->
              /\ procs' = [procs EXCEPT ![p] =
                    [@ EXCEPT !.type = message.type, !.pc = "saveSettings",
                              !.arg = message.arg]]
              /\ store' = saveData(store, SettingsKey, message.arg)
              /\ lastSaved' = message.arg.layout
    /\ UNCHANGED <<epoch, notice>>

\* handleGetData after getToken: without a token it throws, else
\* initApiClient(token) and fetchMentionedIssues, which calls cache.get
RaceFetchStart(p) ==
    /\ procs[p].pc = "getToken"
    /\ procs' = [procs EXCEPT ![p] =
          IF procs[p].tok = ""
          THEN Answer(p, FALSE, NoDatum)
          ELSE [@ EXCEPT !.pc = "cacheGet",
                         !.entry = IF RaceKey \in DOMAIN store
                                   THEN [present |-> TRUE, entry |-> store[RaceKey]]
                                   ELSE NoEntry]]
    /\ UNCHANGED <<store, epoch, lastSaved, notice>>

\* a fetch that sends no request of its own while another handler's is in flight
RaceIssue_singleFlight(p) ==
    IF \E q \in Procs \ {p} : procs[q].pc = "api"
    THEN [procs[p] EXCEPT !.pc = "api", !.missed = TRUE,
                          !.fetched = Datum(p, procs[p].tok, epoch)]
    ELSE [procs[p] EXCEPT !.pc = "api", !.missed = TRUE, !.issued = @ + 1,
                          !.fetched = Datum(p, procs[p].tok, epoch)]

\* cache.get returned null: client.get is called with the credential of the
\* client this handler made
RaceIssue(p) ==
    [procs[p] EXCEPT !.pc = "api", !.missed = TRUE, !.issued = @ + 1,
                     !.fetched = Datum(p, procs[p].tok, epoch)]

\* cache.get after getData: no entry is a miss, an entry within its ttl is
\* returned, an expired one is to be deleted (delete awaits an import first)
RaceCacheGet(p) ==
    /\ procs[p].pc = "cacheGet"
    /\ procs' = [procs EXCEPT ![p] =
          IF ~procs[p].entry.present THEN RaceIssue(p)
          ELSE IF Expired(procs[p].entry.entry, now) THEN [@ EXCEPT !.pc = "delete"]
          ELSE [@ EXCEPT !.pc = "return", !.fetched = procs[p].entry.entry.data]]
    /\ UNCHANGED <<store, epoch, lastSaved, notice>>

\* delete(key) after its import: removeData(cacheKey)
RaceCacheDelete(p) ==
    /\ procs[p].pc = "delete"
    /\ procs' = [procs EXCEPT ![p].pc = "deleted"]
    /\ store' = cacheDelete(store, KeyOf(RaceFn))
    /\ UNCHANGED <<epoch, lastSaved, notice>>

\* cache.get after its delete: it returns null, client.get is called
RaceCacheMiss(p) ==
    /\ procs[p].pc = "deleted"
    /\ procs' = [procs EXCEPT ![p] = RaceIssue(p)]
    /\ UNCHANGED <<store, epoch, lastSaved, notice>>

\* client.get resolves and fetchMentionedIssues calls cache.set, or it
\* rejects and handleGetData answers with the error
RaceApiAnswers(p) ==
    /\ procs[p].pc = "api"
    /\ \E ok \in BOOLEAN :
          IF ok
          THEN /\ procs' = [procs EXCEPT ![p].pc = "return"]
               /\ store' = cacheSet(store, KeyOf(RaceFn), procs[p].fetched, FETCH_TTL, now)
          ELSE /\ procs' = [procs EXCEPT ![p] = Answer(p, FALSE, NoDatum)]
               /\ UNCHANGED store
    /\ UNCHANGED <<epoch, lastSaved, notice>>

\* fetchMentionedIssues returns and handleGetData answers with the issues
RaceGetDataAnswers(p) ==
    /\ procs[p].pc = "return"
    /\ procs' = [procs EXCEPT ![p] = Answer(p, TRUE, procs[p].fetched)]
    /\ UNCHANGED <<store, epoch, lastSaved, notice>>

\* clearAll after it read the keys: chrome.storage.local.remove(cacheKeys) if
\* there are any
RaceClearAll(p) ==
    /\ procs[p].pc = "clearAll"
    /\ procs' = [procs EXCEPT ![p].pc = "cleared"]
    /\ store' = IF procs[p].keys # {} THEN removeKeys(store, procs[p].keys) ELSE store
    /\ UNCHANGED <<epoch, lastSaved, notice>>

\* handleRefreshData answers
RaceRefreshAnswers(p) ==
    /\ procs[p].pc = "cleared"
    /\ procs' = [procs EXCEPT ![p] = Answer(p, TRUE, NoDatum)]
    /\ epoch' = epoch + 1
    /\ UNCHANGED <<store, lastSaved, notice>>

\* saveToken after getSettings: settings.token = token; saveSettings(settings)
RaceSaveToken(p) ==
    /\ procs[p].pc = "getSettings"
    /\ procs' = [procs EXCEPT ![p].pc = "saveToken"]
    /\ store' = saveData(store, SettingsKey,
                         [procs[p].settings EXCEPT !.token = procs[p].arg.token])
    /\ UNCHANGED <<epoch, lastSaved, notice>>

\* handleSaveToken answers
RaceSaveTokenAnswers(p) ==
    /\ procs[p].pc = "saveToken"
    /\ procs' = [procs EXCEPT ![p] = Answer(p, TRUE, NoDatum)]
    /\ UNCHANGED <<store, epoch, lastSaved, notice>>

\* handleSaveSettings after saveSettings: notifySettingsUpdated and the answer
RaceSaveSettingsAnswers(p) ==
    /\ procs[p].pc = "saveSettings"
    /\ procs' = [procs EXCEPT ![p] = Answer(p, TRUE, NoDatum)]
    /\ notifySettingsUpdated(procs[p].arg)
    /\ UNCHANGED <<store, epoch, lastSaved>>

Receives == \E p \in Procs, message \in RaceMessages : RaceReceive(p, message) /\ RaceFrame
FetchStarts == \E p \in Procs : RaceFetchStart(p) /\ RaceFrame
CacheGetReturns == \E p \in Procs : RaceCacheGet(p) /\ RaceFrame
CacheDeletes == \E p \in Procs : RaceCacheDelete(p) /\ RaceFrame
CacheMisses == \E p \in Procs : RaceCacheMiss(p) /\ RaceFrame
ApiAnswers == \E p \in Procs : RaceApiAnswers(p) /\ RaceFrame
GetDataAnswers == \E p \in Procs : RaceGetDataAnswers(p) /\ RaceFrame
ClearsAll == \E p \in Procs : RaceClearAll(p) /\ RaceFrame
RefreshAnswers == \E p \in Procs : RaceRefreshAnswers(p) /\ RaceFrame
SavesToken == \E p \in Procs : RaceSaveToken(p) /\ RaceFrame
SaveTokenAnswers == \E p \in Procs : RaceSaveTokenAnswers(p) /\ RaceFrame
SaveSettingsAnswers == \E p \in Procs : RaceSaveSettingsAnswers(p) /\ RaceFrame

NextRace ==
    \/ Receives
    \/ FetchStarts
    \/ CacheGetReturns
    \/ CacheDeletes
    \/ CacheMisses
    \/ ApiAnswers
    \/ GetDataAnswers
    \/ ClearsAll
    \/ RefreshAnswers
    \/ SavesToken
    \/ SaveTokenAnswers
    \/ SaveSettingsAnswers

SpecRace == InitRace /\ [][NextRace]_vars

\* ------------------------------------------------------------------------
\* Properties of the retry policy, stated for Spec
\* ------------------------------------------------------------------------
\* every attempt of the logical request so far ended in a retry-eligible kind
AllEligible == failures = calls

\* C1 as stated: a logical request whose every attempt ends in a
\* retry-eligible failure gives up after exactly MAX_RETRIES eligible failures,
\* and no attempt is issued once MAX_RETRIES attempts have been counted.
C1_GivesUpAfterMaxRetriesFailures ==
    /\ calls <= MAX_RETRIES
    /\ (pc = "failed" /\ AllEligible) => failures = MAX_RETRIES

\* C1 amended: the retry budget is one counter per logical request, shared by
\* all failure kinds; a request whose every attempt ends in a retry-eligible
\* failure gives up after exactly MAX_RETRIES + 1 failures (the first attempt
\* and MAX_RETRIES retries), and no attempt is issued once retryCount has
\* reached MAX_RETRIES.
C1_RetryBudget ==
    /\ retryCount <= MAX_RETRIES
    /\ pc # "idle" => calls = retryCount + 1
    /\ pc = "sleep" => retryCount < MAX_RETRIES
    /\ (pc = "failed" /\ AllEligible) =>
          /\ failures = MAX_RETRIES + 1
          /\ calls = MAX_RETRIES + 1
          /\ error \in {NetworkError(lastOutcome), RateLimitError(lastOutcome),
                        HttpError(lastOutcome)}

C1_Witness ==
    /\ pc = "failed"
    /\ AllEligible
    /\ failures = MAX_RETRIES + 1
    /\ {"network", "429", "5xx"} \subseteq seen

ClientError(o) == o.kind = "http" /\ o.status < 500 /\ o.status # 429

\* C2: a non-2xx response whose status is below 500 and is not 429 ends the
\* logical request on the attempt that received it: the request has failed
\* with an ApiError of that status, no retry is pending, and the transport
\* calls are those made up to that attempt (one for a first-attempt 404).
C2_ClientErrorNeverRetried ==
    ClientError(lastOutcome) =>
        /\ pc = "failed"
        /\ error.status = lastOutcome.status
        /\ calls = retryCount + 1
        /\ failures = retryCount
        /\ (retryCount = 0 => calls = 1)

C2_Witness ==
    /\ ClientError(lastOutcome)
    /\ lastOutcome.status = 404
    /\ retryCount = 0
    /\ calls = 1
    /\ pc = "failed"

C2_WitnessLater ==
    /\ ClientError(lastOutcome)
    /\ retryCount = 2
    /\ pc = "failed"

\* the delay the retry policy is to wait after attempt n ended in o at time t
ExpectedDelay(o, n, t) ==
    IF o.kind = "http" /\ o.status = 429
    THEN IF o.retryAfter.present THEN parseInt(o.retryAfter.digits) * 1000
         ELSE IF o.reset.present THEN Max(0, parseInt(o.reset.digits) * 1000 - t)
         ELSE 1000 * Pow2(n)
    ELSE 1000 * Pow2(n)

\* C3: attempt n+1 is not issued before the delay computed for the failure of
\* attempt n has elapsed: Retry-After seconds, else the time to
\* X-RateLimit-Reset floored at 0, else 1000 * 2^n for a 429; 1000 * 2^n
\* (1000, 2000, 4000) for a server error or a network failure; at least
\* 2000 ms after a 429 carrying Retry-After: 2.
C3_RetryDelayElapsed ==
    (pc = "attempt" /\ retryCount >= 1) =>
        /\ issuedAt >= computedAt + ExpectedDelay(lastOutcome, retryCount - 1, computedAt)
        /\ Class(lastOutcome) # "429" =>
              issuedAt - computedAt >= (CASE retryCount = 1 -> 1000
                                          [] retryCount = 2 -> 2000
                                          [] OTHER -> 4000)
        /\ (Class(lastOutcome) = "429" /\ lastOutcome.retryAfter = Header(<<2>>)) =>
              issuedAt - computedAt >= 2000

C3_Witness ==
    /\ pc = "attempt"
    /\ retryCount = MAX_RETRIES
    /\ Class(lastOutcome) = "429"
    /\ ~lastOutcome.retryAfter.present
    /\ lastOutcome.reset = Header(<<9>>)
    /\ issuedAt = computedAt + (9000 - computedAt)
    /\ computedAt < 9000

C3_WitnessRetryAfter ==
    /\ pc = "attempt"
    /\ retryCount >= 1
    /\ lastOutcome.retryAfter = Header(<<2>>)
    /\ issuedAt = computedAt + 2000

\* the status of an attempt's outcome: the response status, 0 for a network failure
ExpectedStatus(o) == IF o.kind = "http" THEN o.status ELSE 0

\* C4: a logical request that fails after one or more retries, its last
\* attempt ending in an HTTP error or a network failure, delivers an ApiError
\* that carries the status and the message of that last outcome: the response
\* status and the message of its JSON body, or status 0 and the cause of the
\* network failure.
C4_LastErrorDelivered ==
    (pc = "failed" /\ retryCount >= 1 /\ lastOutcome.kind \in {"http", "network"}) =>
        /\ error.status = ExpectedStatus(lastOutcome)
        /\ (lastOutcome.kind = "http" /\ lastOutcome.body.json /\ lastOutcome.body.message # "")
              => error.message = <<lastOutcome.body.message>>
        /\ lastOutcome.kind = "network"
              => error.message = <<"Network error: ", lastOutcome.cause>>

C4_Witness ==
    /\ pc = "failed"
    /\ retryCount = MAX_RETRIES
    /\ {"network", "429", "5xx"} \subseteq seen
    /\ lastOutcome.status = 503
    /\ error = [status |-> 503, message |-> <<"m2">>]

\* ------------------------------------------------------------------------
\* Properties of the cache, stated for SpecCache
\* ------------------------------------------------------------------------
\* the latest set() on the key of the latest operation
LastWritten == written[lastOp.key]

\* the time from which the entry of the latest set() is expired, in ms
ExpiresAfter(w) == w.storedAt + w.ttl * 1000

\* C5: a get(key) at a time t > storedAt + ttl of the entry written by the
\* latest set(key, data, ttl) returns miss and leaves the key absent from the
\* store, so every later get with no set in between misses as well; and an
\* entry that get() does return is not expired.
C5_ExpiredEntryEvicted ==
    lastOp.op = "get" =>
        /\ (LastWritten.set /\ lastOp.at > ExpiresAfter(LastWritten)) =>
              /\ lastOp.result = Miss
              /\ getCacheKey(lastOp.key) \notin DOMAIN store
        /\ lastOp.result.hit =>
              /\ getCacheKey(lastOp.key) \in DOMAIN lastOp.before
              /\ lastOp.at <= lastOp.before[getCacheKey(lastOp.key)].timestamp
                              + lastOp.before[getCacheKey(lastOp.key)].ttl

\* a get that found the expired entry and removed it
C5_WitnessEviction ==
    /\ lastOp.op = "get"
    /\ LastWritten.set
    /\ lastOp.at > ExpiresAfter(LastWritten)
    /\ getCacheKey(lastOp.key) \in DOMAIN lastOp.before
    /\ getCacheKey(lastOp.key) \notin DOMAIN store

\* a later get: the entry was set, never deleted or cleared, and is already
\* gone from the store when this get starts
C5_Witness ==
    /\ lastOp.op = "get"
    /\ LastWritten.set
    /\ ~LastWritten.removed
    /\ LastWritten.ttl = 1
    /\ lastOp.at > ExpiresAfter(LastWritten)
    /\ getCacheKey(lastOp.key) \notin DOMAIN lastOp.before
    /\ lastOp.result = Miss

\* C6: a get(key) at a time t <= storedAt + ttl of the latest
\* set(key, data, ttl), with no delete or clearAll since, returns exactly that
\* data and leaves the store as it was; after two sets it is the later data.
C6_FreshEntryReturned ==
    (/\ lastOp.op = "get"
     /\ LastWritten.set
     /\ ~LastWritten.removed
     /\ lastOp.at <= ExpiresAfter(LastWritten)) =>
        /\ lastOp.result = Hit(LastWritten.data)
        /\ store = lastOp.before

\* a get exactly at storedAt + ttl of a set that replaced other data
C6_Witness ==
    /\ lastOp.op = "get"
    /\ LastWritten.set
    /\ LastWritten.replaced
    /\ LastWritten.ttl = 1
    /\ lastOp.at = ExpiresAfter(LastWritten)
    /\ lastOp.result = Hit(LastWritten.data)

\* the key carries the cache namespace prefix 'cache_'
Namespaced(k) == Len(k) >= 1 /\ Head(k) = "cache_"

\* C7: clearAll() removes every key of the store that carries the prefix
\* 'cache_' and leaves every other key, 'settings' in particular, present
\* with the value it had.
C7_ClearAllFrame ==
    lastOp.op = "clearAll" =>
        /\ \A k \in DOMAIN store : ~Namespaced(k)
        /\ \A k \in DOMAIN lastOp.before :
              ~Namespaced(k) => (k \in DOMAIN store /\ store[k] = lastOp.before[k])
        /\ DOMAIN store \subseteq DOMAIN lastOp.before

C7_Witness ==
    /\ lastOp.op = "clearAll"
    /\ \A k \in CacheKeys : getCacheKey(k) \in DOMAIN lastOp.before
    /\ SettingsKey \in DOMAIN store
    /\ store[SettingsKey].token = "t1"
    /\ Cardinality(DOMAIN store) = 1

\* ------------------------------------------------------------------------
\* Properties of the DataService, stated for SpecData
\* ------------------------------------------------------------------------
\* the running or last fetch went to the API and its last client.get failed
ApiCallFailed ==
    fn \in FetchFns /\ requests # <<>> /\ pc = "failed" /\ fpc \in {"returned", "threw"}

\* the k-th repository of a drained listing whose pages before the last are full
NthRepo(k) == <<((k - 1) \div 100) + 1, ((k - 1) % 100) + 1>>

\* C8: on a cache miss fetchRepositories requests pages 1, 2, 3, ... in
\* increasing order, each only after the previous page has returned, goes on
\* only after a full page of 100, never requests page 11, and returns the
\* concatenation of the pages in request order: [100, 100, 37] gives 237 items
\* after 3 requests, ten full pages give 1000 items after 10 requests.
C8_Pagination ==
    fn = "repositories" =>
        /\ \A i \in 1..Len(requests) : requests[i] = i
        /\ Len(requests) <= 10
        /\ Len(pageSizes) <= Len(requests)
        /\ Len(requests) <= Len(pageSizes) + 1
        /\ \A i \in 1..Len(pageSizes) : i < Len(requests) => pageSizes[i] = 100
        /\ (fpc = "returned" /\ requests # <<>>) =>
              /\ Len(pageSizes) = Len(requests)
              /\ pageSizes[Len(pageSizes)] < 100 \/ Len(requests) = 10
              /\ Len(fetchResult.value) =
                    100 * (Len(pageSizes) - 1) + pageSizes[Len(pageSizes)]
              /\ \A k \in 1..Len(fetchResult.value) : fetchResult.value[k] = NthRepo(k)
              /\ pageSizes = <<100, 100, 37>> =>
                    (Len(fetchResult.value) = 237 /\ requests = <<1, 2, 3>>)
              /\ (Len(pageSizes) = 10 /\ pageSizes[10] = 100) =>
                    Len(fetchResult.value) = 1000

C8_Witness ==
    /\ fn = "repositories"
    /\ fpc = "returned"
    /\ pageSizes = <<100, 100, 37>>
    /\ requests = <<1, 2, 3>>
    /\ Len(fetchResult.value) = 237
    /\ fetchResult.value[201] = <<3, 1>>

C8_WitnessCeiling ==
    /\ fn = "repositories"
    /\ fpc = "returned"
    /\ Len(requests) = 10
    /\ Len(fetchResult.value) = 1000
    /\ page = 11

\* C9: when the projects key misses and the call of /user/projects ends in a
\* terminal failure, fetchProjects returns the empty list instead of throwing,
\* and a GET_DATA request (made with a stored token) whose projects stage ran
\* so succeeds with an empty projects list.
C9_ProjectsFailureIsEmptyList ==
    (fn = "projects" /\ ApiCallFailed) =>
        /\ fpc = "returned"
        /\ fetchResult = [ok |-> TRUE, value |-> <<>>, error |-> NoError]
        /\ (hpc = "responded" /\ getToken(store) # "") =>
              /\ response = Success
              /\ result.projects = [set |-> TRUE, value |-> <<>>]
              /\ ResponseProjects = <<>>

C9_Witness ==
    /\ fn = "projects"
    /\ ApiCallFailed
    /\ retryCount = MAX_RETRIES
    /\ lastOutcome.status = 503
    /\ hpc = "responded"
    /\ dataType = "projects"
    /\ response = Success
    /\ ResponseProjects = <<>>

\* C10: for user, organizations, repositories and mentioned issues an ApiError
\* of the client on a cache miss leaves the fetch function unchanged (same
\* status and message); projects is the only resource whose failure is
\* turned into a returned value.
C10_ErrorsPropagateUnchanged ==
    ApiCallFailed =>
        /\ fn # "projects" => (fpc = "threw" /\ fetchResult.error = error)
        /\ fpc = "returned" => fn = "projects"

C10_Witness ==
    /\ ApiCallFailed
    /\ fn = "repositories"
    /\ requests = <<1, 2>>
    /\ fpc = "threw"
    /\ fetchResult.error = [status |-> 401, message |-> <<"m1">>]

C10_WitnessUser ==
    /\ ApiCallFailed
    /\ fn = "user"
    /\ fpc = "threw"
    /\ fetchResult.error = [status |-> 0, message |-> <<"Network error: ", "c1">>]

\* ------------------------------------------------------------------------
\* Properties of repeated fetches, stated for SpecRefetch
\* ------------------------------------------------------------------------
\* the store key of the running or last fetch function
FetchKey == getCacheKey(KeyOf(fn))

\* the latest cache.set of the running or last fetch function
FetchWritten == written[KeyOf(fn)]

\* the fetch function has just looked into the cache and not stored since
JustLooked == fn \in FetchFns /\ lastOp.op = "get" /\ lastOp.key = KeyOf(fn)

\* the entry the fetch function found is at most 300 s old
FoundFresh ==
    /\ FetchKey \in DOMAIN lastOp.before
    /\ lastOp.at - lastOp.before[FetchKey].timestamp <= lastOp.before[FetchKey].ttl

\* C11: a fetch that finds an unexpired entry under its key returns the cached
\* value and issues no API request; a fetch that finds none calls the API, and
\* when the API call succeeds its result is stored under the key with a TTL of
\* 300 s and returned; a fetch made up to 300 s after that store, with no
\* clearing in between, issues no API request and returns the stored result.
C11_FetchThroughCache ==
    /\ (JustLooked /\ FoundFresh) =>
          /\ fpc = "returned"
          /\ requests = <<>>
          /\ fetchResult = [ok |-> TRUE, value |-> lastOp.before[FetchKey].data, error |-> NoError]
    /\ (JustLooked /\ ~FoundFresh) =>
          /\ requests # <<>>
          /\ calls >= 1
    /\ (fn \in FetchFns /\ fpc = "returned" /\ requests # <<>> /\ pc = "done") =>
          /\ FetchWritten.set
          /\ FetchWritten.ttl = 300
          /\ FetchWritten.data = fetchResult.value
          /\ FetchKey \in DOMAIN store
          /\ store[FetchKey] = [data |-> fetchResult.value,
                                timestamp |-> FetchWritten.storedAt, ttl |-> 300000]
    /\ (/\ JustLooked
        /\ FetchWritten.set
        /\ ~FetchWritten.removed
        /\ lastOp.at <= FetchWritten.storedAt + 300000) =>
          /\ fpc = "returned"
          /\ requests = <<>>
          /\ fetchResult.value = FetchWritten.data

\* a second fetch exactly 300 s after the first one stored its result
C11_Witness ==
    /\ JustLooked
    /\ fn = "issues_mentioned"
    /\ FetchWritten.set
    /\ lastOp.at = FetchWritten.storedAt + 300000
    /\ fpc = "returned"
    /\ requests = <<>>
    /\ fetchResult.value = <<Item(1, "2024-01-01T05:00:00Z"), Item(2, "2024-01-01T07:00:00Z")>>

\* a fetch 300 s and 1 ms after the store calls the API again and stores anew
C11_WitnessExpired ==
    /\ fn = "user"
    /\ fpc = "returned"
    /\ requests = <<1>>
    /\ pc = "done"
    /\ FetchWritten.storedAt = 300001
    /\ FetchKey \notin DOMAIN lastOp.before

\* ------------------------------------------------------------------------
\* Properties of the message listener, stated for SpecData
\* ------------------------------------------------------------------------
\* the kinds of message handleMessage has a case for
KnownTypes == {"GET_SETTINGS", "SAVE_SETTINGS", "SAVE_TOKEN", "VALIDATE_TOKEN",
               "GET_DATA", "REFRESH_DATA"}

\* the envelope is {success: true, data} or {success: false, error}
WellFormed(r) ==
    /\ r.sent
    /\ r.success => r.error = <<>>
    /\ ~r.success => (r.error # <<>> /\ r.data = NoData)

\* the envelope of a message once its handling is over, and none before
EnvelopeWhenOver ==
    msg # "none" =>
        /\ hpc = "responded" => WellFormed(response)
        /\ hpc # "responded" => ~response.sent
        /\ msg \notin KnownTypes =>
              /\ hpc = "responded"
              /\ ~response.success
              /\ Head(response.error) = "Unknown message type: "
              /\ response.error[2] = msg

\* an envelope that was sent is not followed by another one for the message
EnvelopeOnce == response.sent => response' = response

\* C12: every message the listener receives, of a known or an unknown kind and
\* whatever fails while it is handled, is answered by exactly one envelope,
\* {success: true, data} or {success: false, error}, sent when the handling is
\* over; a message of an unknown kind is answered {success: false} with an
\* error that begins 'Unknown message type'.
C12_OneEnvelopePerMessage == []EnvelopeWhenOver /\ [][EnvelopeOnce]_vars

\* a message of an unknown kind was answered
C12_Witness ==
    /\ msg = "PING"
    /\ hpc = "responded"
    /\ response = Failure(<<"Unknown message type: ", "PING">>)

\* a SAVE_TOKEN that the store refused was answered with the failure envelope
C12_WitnessStore ==
    /\ msg = "SAVE_TOKEN"
    /\ hpc = "responded"
    /\ ~response.success
    /\ getToken(store) # "t2"

\* a GET_DATA whose fetch ended in an ApiError after retries was answered
C12_WitnessApiError ==
    /\ msg = "GET_DATA"
    /\ hpc = "responded"
    /\ retryCount = MAX_RETRIES
    /\ response = Failure(<<"API Error (", 503, "): ", "HTTP ", 503>>)

\* ------------------------------------------------------------------------
\* Properties of refresh, stated for SpecWorker
\* ------------------------------------------------------------------------
\* after the refresh: answered, no cache entry left, no request in flight
RefreshClears ==
    msg = "REFRESH_DATA" =>
        /\ hpc = "responded"
        /\ response.success
        /\ \A k \in DOMAIN store : k[1] # "cache_"
        /\ pc \notin {"attempt", "sleep"}

\* the first fetch of a resource after the refresh misses and goes to the API
RefetchAfterRefresh ==
    (msg = "GET_DATA" /\ JustLooked /\ FetchWritten.removed) =>
        /\ lastOp.result = Miss
        /\ requests # <<>>
        /\ Head(requests) = 1

\* a GET_DATA answered with success left every list it fetched from the API
\* in the cache
Repopulated ==
    (msg = "GET_DATA" /\ hpc = "responded" /\ response.success) =>
        \A i \in 1..Len(Stages(dataType)) :
            LET stage == Stages(dataType)[i]
                key == getCacheKey(KeyOf(StageFn(stage)))
            IN /\ result[stage].set
               /\ \/ /\ key \in DOMAIN store
                     /\ store[key].data = result[stage].value
                  \/ /\ stage = "projects"
                     /\ result[stage].value = <<>>

\* handling REFRESH_DATA issues no transport call
RefreshIssuesNothing == msg' = "REFRESH_DATA" => UNCHANGED <<pc, calls, issuedAt, retryCount>>

\* C13: a REFRESH_DATA issues no API request and leaves no cache entry in the
\* store; with no other call running, the first fetch of each resource by a
\* GET_DATA after it, of whatever dataType, misses the cache and requests the
\* resource from the API again, and a GET_DATA answered with success has put
\* the lists it fetched back into the cache.
C13_RefreshThenRefetch ==
    [](RefreshClears /\ RefetchAfterRefresh /\ Repopulated) /\ [][RefreshIssuesNothing]_vars

\* GET_DATA(all) after a refresh that cleared cached issues: repositories were
\* fetched again and cached again, the issues are being requested again
C13_Witness ==
    /\ msg = "GET_DATA"
    /\ dataType = "all"
    /\ hpc = "issues"
    /\ JustLooked
    /\ FetchWritten.set
    /\ FetchWritten.removed
    /\ fpc = "api"
    /\ pc = "attempt"
    /\ result.repositories.set
    /\ written[KeyOf("repositories")].set
    /\ ~written[KeyOf("repositories")].removed

\* the refresh found a populated cache and emptied it
C13_WitnessCleared ==
    /\ msg = "REFRESH_DATA"
    /\ lastOp.op = "clearAll"
    /\ \A f \in {"repositories", "issues_mentioned", "projects"} :
          getCacheKey(KeyOf(f)) \in DOMAIN lastOp.before
    /\ DOMAIN store = {SettingsKey}

\* ------------------------------------------------------------------------
\* Properties of token validation, stated for SpecData
\* ------------------------------------------------------------------------
\* validateToken never throws, and what it returns follows the /user call
ValidateTokenReturns ==
    fn = "validateToken" =>
        /\ fpc # "threw"
        /\ fpc = "returned" =>
              /\ fetchResult.ok
              /\ pc \in {"done", "failed"}
              /\ pc = "done" =>
                    /\ fetchResult.value.valid
                    /\ fetchResult.value.user = data
              /\ pc = "failed" =>
                    /\ ~fetchResult.value.valid
                    /\ fetchResult.value.message # <<>>
                    /\ DOMAIN fetchResult.value = {"valid", "message"}

\* the answer to VALIDATE_TOKEN is a success envelope around the verdict
ValidateTokenAnswered ==
    (msg = "VALIDATE_TOKEN" /\ hpc = "responded") =>
        /\ response.success
        /\ getToken(store) = "" =>
              /\ ~response.data.valid
              /\ response.data.message # <<>>
              /\ fn = "none"
              /\ calls = 0
              /\ pc = "idle"
        /\ getToken(store) # "" =>
              /\ response.data = fetchResult.value
              /\ response.data.valid <=> pc = "done"

\* C14: validateToken never throws: it returns {valid: true, user} when the
\* /user call succeeds and {valid: false, message} when it fails, by an HTTP
\* status, a network failure or a timeout; VALIDATE_TOKEN with no stored
\* credential is answered {valid: false, message} without any API request;
\* the envelope of VALIDATE_TOKEN is always {success: true}.
C14_ValidationNeverRaises == ValidateTokenReturns /\ ValidateTokenAnswered

\* a validation whose /user call timed out was answered {valid: false}
C14_Witness ==
    /\ msg = "VALIDATE_TOKEN"
    /\ hpc = "responded"
    /\ lastOutcome.kind = "timeout"
    /\ error.status = 408
    /\ response = SuccessWith([valid |-> FALSE,
                               message |-> <<"validation failed: ", "Request timeout">>])

\* a validation whose /user call succeeded after retries
C14_WitnessValid ==
    /\ msg = "VALIDATE_TOKEN"
    /\ hpc = "responded"
    /\ retryCount = MAX_RETRIES
    /\ response.data.valid
    /\ response.data.user = [login |-> "u1"]

\* a validation with no stored credential
C14_WitnessNoToken ==
    /\ msg = "VALIDATE_TOKEN"
    /\ hpc = "responded"
    /\ SettingsKey \notin DOMAIN store
    /\ response = SuccessWith([valid |-> FALSE, message |-> <<"no token">>])

\* ------------------------------------------------------------------------
\* Properties of credential rotation, stated for SpecToken
\* ------------------------------------------------------------------------
\* C15: every transport attempt of a logical request, a retry issued after a
\* setToken included, carries the credential that was this.token when the
\* logical request was started.
C15_AttemptsCarryStartCredential ==
    calls >= 1 => auth = startedWith

\* ------------------------------------------------------------------------
\* Properties of the aggregation views, stated for SpecLists
\* ------------------------------------------------------------------------
\* the group a repository belongs to: its owner login for an organization,
\* the personal bucket otherwise
GroupOf(repo) ==
    IF repo.owner.type = "Organization" THEN repo.owner.login ELSE <<"Personal">>

\* the place in the list of the first repository of the group
FirstSeen(list, g) == CHOOSE i \in 1..Len(list) :
                         /\ GroupOf(list[i]) = g
                         /\ \A j \in 1..(i - 1) : GroupOf(list[j]) # g

\* the groups partition the list: one group per group name that occurs, each
\* holding exactly the repositories of that name in their order in the list,
\* the groups in the order in which their first members occur in the list
PartitionOf(list, groups) ==
    /\ \A i \in 1..Len(list) : \E k \in 1..Len(groups) : groups[k].key = GroupOf(list[i])
    /\ \A k, l \in 1..Len(groups) : groups[k].key = groups[l].key => k = l
    /\ \A k \in 1..Len(groups) :
          /\ groups[k].value # <<>>
          /\ groups[k].value = SelectSeq(list, LAMBDA r : GroupOf(r) = groups[k].key)
    /\ \A k, l \in 1..Len(groups) :
          k < l => FirstSeen(list, groups[k].key) < FirstSeen(list, groups[l].key)

\* what groupRepositoriesByOrganization returns partitions its argument
GroupedRight ==
    op = "groupRepositoriesByOrganization" => PartitionOf(input, output)

\* the groups of the response come in first-seen order
ViewInGroupOrder ==
    op = "handleGetData" =>
        /\ \A i \in 1..Len(input) :
              \E k \in 1..Len(output) : output[k].organization = GroupOf(input[i])
        /\ \A k, l \in 1..Len(output) :
              k < l => FirstSeen(input, output[k].organization)
                          < FirstSeen(input, output[l].organization)

\* C16: grouping partitions the repository list, every repository in exactly
\* one group (its owner login for an organization, the personal bucket
\* otherwise), groups in first-seen order and repositories in input order
\* inside a group; and the groups of the GET_DATA response come in that same
\* first-seen order.
C16_GroupsInFirstSeenOrder == GroupedRight /\ ViewInGroupOrder

\* the items come newest first, those of equal updated_at in the order of
\* their places (ids) in the list they were taken from
NewestFirstStable(list) ==
    \A i, j \in 1..Len(list) :
        i < j => \/ getTime(list[i].updated_at) > getTime(list[j].updated_at)
                 \/ /\ getTime(list[i].updated_at) = getTime(list[j].updated_at)
                    /\ list[i].id < list[j].id

\* the output holds the items of the input, each once
PermutationOf(out, in) ==
    /\ Len(out) = Len(in)
    /\ \A i \in 1..Len(in) : \E j \in 1..Len(out) : out[j] = in[i]

SortFns == {"sortRepositoriesByUpdated", "sortIssuesByUpdated", "sortProjectsByUpdated"}

\* what a sort function returned for the input
SortedRight == op \in SortFns => (PermutationOf(output, input) /\ NewestFirstStable(output))

\* C17: sortRepositoriesByUpdated, sortIssuesByUpdated and
\* sortProjectsByUpdated each return a permutation of their input ordered by
\* updated_at descending, items of equal updated_at in their input order, and
\* the input list is the same list after the call as before it.
C17_SortedCopy == []SortedRight /\ [][input' = input]_vars

\* a list of three whose first and last items name the same instant in two
\* ways, sorted: the newer middle item first, then the two tied items in
\* input order
C17_Witness ==
    /\ op = "sortIssuesByUpdated"
    /\ Len(input) = 3
    /\ input[1].updated_at = "2024-01-01T03:00:00+01:00"
    /\ input[2].updated_at = "2024-01-01T05:00:00Z"
    /\ input[3].updated_at = "2024-01-01T02:00:00Z"
    /\ output = <<input[2], input[1], input[3]>>

\* ------------------------------------------------------------------------
\* Properties of the terminal error, stated for Spec
\* ------------------------------------------------------------------------
\* the logical request ended on a response that was not ok
EndedOnResponse == pc = "failed" /\ lastOutcome.kind = "http"

\* the body of the last response is JSON that carries a message
BodyHasMessage == lastOutcome.body.json /\ lastOutcome.body.message # ""

\* C18 as stated: every logical request that ends on a non-2xx response, a 429
\* after the retry budget included, raises an ApiError with the status of the
\* response and the message of its JSON body, and with the text
\* 'HTTP <status>' whenever the body is not parseable JSON.
C18_FallbackIsHttpStatus ==
    EndedOnResponse =>
        /\ error.status = lastOutcome.status
        /\ BodyHasMessage => error.message = <<lastOutcome.body.message>>
        /\ ~lastOutcome.body.json => error.message = <<"HTTP ", lastOutcome.status>>

\* the text used when the body carries no message
FallbackText(status) ==
    IF status = 429 THEN <<"Rate limit exceeded">> ELSE <<"HTTP ", status>>

\* C18 amended: the ApiError carries the status of the response and the
\* message of its JSON body; when the body is not parseable JSON or carries no
\* message, the message is 'HTTP <status>', except for a 429 after the retry
\* budget, where it is 'Rate limit exceeded'.
C18_TerminalError ==
    EndedOnResponse =>
        /\ error.status = lastOutcome.status
        /\ BodyHasMessage => error.message = <<lastOutcome.body.message>>
        /\ ~BodyHasMessage => error.message = FallbackText(lastOutcome.status)

\* a 429 with an unparsable body after the last retry
C18_Witness ==
    /\ EndedOnResponse
    /\ retryCount = MAX_RETRIES
    /\ lastOutcome.status = 429
    /\ ~lastOutcome.body.json
    /\ error = [status |-> 429, message |-> <<"Rate limit exceeded">>]

\* a 404 with an unparsable body on the first attempt
C18_WitnessHttp ==
    /\ EndedOnResponse
    /\ retryCount = 0
    /\ lastOutcome.status = 404
    /\ ~lastOutcome.body.json
    /\ error = [status |-> 404, message |-> <<"HTTP ", 404>>]

\* ------------------------------------------------------------------------
\* Properties of the timeout, stated for Spec
\* ------------------------------------------------------------------------
\* C19: an attempt that gets no response within 30 s fails as a timeout, the
\* logical request ends there with an ApiError of status 408 whatever the
\* number of the attempt, and no further attempt is issued for it: the retry
\* count stays what it was, even when retries are left.
C19_TimeoutEndsRequest ==
    lastOutcome.kind = "timeout" =>
        /\ pc = "failed"
        /\ error = [status |-> 408, message |-> <<"Request timeout">>]
        /\ now = issuedAt + 30000
        /\ calls = retryCount + 1
        /\ failures = retryCount

\* a timeout on the first attempt, with the whole retry budget left
C19_Witness ==
    /\ lastOutcome.kind = "timeout"
    /\ pc = "failed"
    /\ retryCount = 0
    /\ calls = 1
    /\ error.status = 408

\* a timeout on the third attempt, after two retries, with one retry left
C19_WitnessLater ==
    /\ lastOutcome.kind = "timeout"
    /\ pc = "failed"
    /\ retryCount = 2
    /\ calls = 3
    /\ failures = 2
    /\ error.status = 408

\* ------------------------------------------------------------------------
\* Properties of a failing GET_DATA, stated for SpecData
\* ------------------------------------------------------------------------
\* C20: when the fetch of one resource fails during GET_DATA(all), only the
\* section of that resource shows an error; the other resources are still
\* fetched and delivered, and their sections show their data.
C20_FailureStaysInItsSection ==
    (msg = "GET_DATA" /\ dataType = "all" /\ hpc = "responded" /\ fpc = "threw") =>
        \A sec \in SectionNames :
            IF StageFn(sec) = fn
            THEN Sections[sec] = "error"
            ELSE /\ result[sec].set
                 /\ Sections[sec] = "data"

\* ------------------------------------------------------------------------
\* What the service worker hands to a content script, stated for SpecData
\* ------------------------------------------------------------------------
\* the stored personal access token
StoredToken == getToken(store)

\* the answer to GET_SETTINGS carries the settings, the token among them
SettingsAnswered ==
    /\ msg = "GET_SETTINGS"
    /\ response.sent
    /\ response.success

\* C21: no message the service worker sends to a content script contains the
\* personal access token: neither the answer to GET_SETTINGS, nor the
\* SETTINGS_UPDATED notification, nor the answer to GET_DATA
C21_TokenStaysInBackground ==
    /\ SettingsAnswered /\ StoredToken # "" => response.data.token # StoredToken
    /\ notice.type = "SETTINGS_UPDATED" => notice.settings.token = ""
    /\ msg = "GET_DATA" /\ response.sent => response.data = NoData

\* ------------------------------------------------------------------------
\* Success in the retry state machine, stated for Spec
\* ------------------------------------------------------------------------
\* the latest finished attempt received a 2xx response
Got2xx == lastOutcome.kind # "none" /\ lastOutcome.status \in 200..299

\* the logical request is Done with the data of the response and one transport
\* call per attempt made
DoneWithData ==
    /\ pc = "done"
    /\ data = "payload"
    /\ calls = retryCount + 1

C22_WitnessUnparsed ==
    /\ lastOutcome.kind = "badjson"
    /\ pc = "sleep"

\* ------------------------------------------------------------------------
\* What the fetch functions write to the cache, stated for SpecData
\* ------------------------------------------------------------------------
\* the store as the lookup of the running fetch left it: the store the fetch
\* started from, less the entry of its key if the lookup found it expired
AsLookedUp ==
    IF /\ getCacheKey(lastOp.key) \in DOMAIN lastOp.before
       /\ lastOp.at - lastOp.before[getCacheKey(lastOp.key)].timestamp
             > lastOp.before[getCacheKey(lastOp.key)].ttl
    THEN [k \in DOMAIN lastOp.before \ {getCacheKey(lastOp.key)} |-> lastOp.before[k]]
    ELSE lastOp.before

\* the fetch wrote nothing so far
NothingWritten ==
    /\ lastOp.op = "get"
    /\ lastOp.key = KeyOf(fn)
    /\ store = AsLookedUp

\* the pagination of fetchRepositories saw its last page
LastPageSeen ==
    /\ pageSizes # <<>>
    /\ \/ pageSizes[Len(pageSizes)] < PER_PAGE
       \/ Len(pageSizes) = MAX_PAGES

\* the projects fetch fell back to the empty list
ProjectsFellBack ==
    /\ fn = "projects"
    /\ fpc = "returned"
    /\ requests # <<>>
    /\ pc = "failed"

\* C27: the cache is written only with a complete, successfully fetched
\* result.  While a fetch awaits the API, when it has failed, and when the
\* projects fetch has fallen back to the empty list, every key holds what it
\* held when the fetch looked its key up (no page of an unfinished pagination
\* and no empty fallback list is stored); a fetch that wrote has returned,
\* its last client.get resolved, a pagination saw its last page, and the entry
\* holds the value the fetch returned.
C27_OnlyCompleteResultsCached ==
    fn \in FetchFns =>
        /\ fpc \in {"api", "threw"} => NothingWritten
        /\ ProjectsFellBack =>
              /\ NothingWritten
              /\ fetchResult.value = <<>>
              /\ FetchKey \notin DOMAIN store
        /\ ~NothingWritten /\ fpc # "idle" =>
              /\ fpc = "returned"
              /\ pc = "done"
              /\ fn = "repositories" => LastPageSeen
              /\ FetchKey \in DOMAIN store
              /\ store[FetchKey].data = fetchResult.value

\* a pagination failed on a later page, the earlier pages not stored
C27_Witness ==
    /\ fn = "repositories"
    /\ fpc = "threw"
    /\ Len(requests) >= 2
    /\ Len(allRepos) >= PER_PAGE
    /\ FetchKey \notin DOMAIN store

\* the projects fetch fell back to the empty list, which is not stored
C27_WitnessFallback ==
    /\ ProjectsFellBack
    /\ FetchKey \notin DOMAIN store

\* a complete pagination of more than one page was stored
C27_WitnessStored ==
    /\ fn = "repositories"
    /\ fpc = "returned"
    /\ Len(requests) >= 2
    /\ FetchKey \in DOMAIN store
    /\ lastOp.op = "set"

\* ------------------------------------------------------------------------
\* Organizations and personal repositories, stated for SpecLists
\* ------------------------------------------------------------------------
\* the repository belongs to an organization
OfOrganization(repo) == repo.owner.type = "Organization"

\* C30: in what groupRepositoriesByOrganization returns, no group holds both
\* a repository whose owner type is "Organization" and one whose owner type
\* is not, whatever the list and the owner logins
C30_OrganizationsApartFromPersonal ==
    op = "groupRepositoriesByOrganization" =>
        \A k \in 1..Len(output) :
            \A i, j \in 1..Len(output[k].value) :
                OfOrganization(output[k].value[i]) = OfOrganization(output[k].value[j])

\* ------------------------------------------------------------------------
\* GET_DATA messages of one content script, stated for SpecContent
\* ------------------------------------------------------------------------
\* C29: a content script has at most one GET_DATA message unanswered at any
\* time, for every sequence of changes of the layout toggle, SETTINGS_UPDATED
\* notifications and answers
C29_OneGetDataInFlight == unanswered <= 1

\* the layout was switched off while GET_DATA was unanswered: the mark is
\* cleared although the message is still in flight
C29_Witness ==
    /\ unanswered = 1
    /\ ~isFetchingData
    /\ ~isCustomLayoutActive

\* a notification arrived and the layout was rebuilt while the mark was set
C29_WitnessMarked ==
    /\ unanswered = 1
    /\ isFetchingData
    /\ currentSettings.layout = "l2"

\* ------------------------------------------------------------------------
\* Handlers that overlap, stated for SpecRace
\* ------------------------------------------------------------------------
\* handler p serves GET_DATA and its cache.get found nothing to return
Missed(p) == procs[p].type = "GET_DATA" /\ procs[p].missed

\* handler p answered GET_DATA with the issues
AnsweredData(p) ==
    /\ procs[p].type = "GET_DATA"
    /\ procs[p].answer.sent
    /\ procs[p].answer.success

\* every handler that missed sent a request of its own, and answers with what
\* that request returned
OwnRequest ==
    \A p \in Procs :
        /\ Missed(p) => procs[p].issued = 1
        /\ Missed(p) /\ AnsweredData(p) => procs[p].answer.data.by = p

\* the cache.set of a handler leaves its own result under the key, whatever
\* was there
LastWriteWins ==
    \A p \in Procs :
        (procs[p].pc = "api" /\ procs'[p].pc = "return") =>
            /\ RaceKey \in DOMAIN store'
            /\ store'[RaceKey].data.by = p

\* C23: there is no single-flight: two GET_DATA handlers that overlap and both
\* miss the key each send their own API request and each write the cache, the
\* entry left being that of the set that ran last; neither waits for the
\* other or answers with the other's result
C23_NoSingleFlight == []OwnRequest /\ [][LastWriteWins]_vars

\* both handlers missed, both requests are in flight
C23_WitnessInFlight ==
    \A p \in Procs : Missed(p) /\ procs[p].pc = "api" /\ procs[p].issued = 1

\* both handlers missed, fetched, stored and answered with their own result;
\* the entry of the second set is in the store
C23_Witness ==
    /\ \A p \in Procs : Missed(p) /\ AnsweredData(p) /\ procs[p].answer.data.by = p
    /\ RaceKey \in DOMAIN store
    /\ store[RaceKey].data.by = 2

\* handler p, in cache.get, removes the key
GetRemoves(p) == procs[p].pc = "delete" /\ procs'[p].pc = "deleted"

\* C24: cache.get removes an entry only when it is expired: under every
\* interleaving of get and set on one key, the removal of a get never deletes
\* an entry that is within its ttl
C24_GetDeletesOnlyExpired ==
    [][\A p \in Procs :
          (GetRemoves(p) /\ RaceKey \in DOMAIN store) =>
              now - store[RaceKey].timestamp > store[RaceKey].ttl]_vars

\* C25: once a REFRESH_DATA request is answered the cache holds no data whose
\* API request was sent before that answer, and a GET_DATA handler started
\* after it answers only with data requested after it
C25_NoDataFromBeforeRefresh ==
    /\ (epoch >= 1 /\ RaceKey \in DOMAIN store) => store[RaceKey].data.epoch >= epoch
    /\ \A p \in Procs : AnsweredData(p) => procs[p].answer.data.epoch >= procs[p].startedAt

\* the credential stored before any SAVE_TOKEN
PreviousToken == "t1"

\* C26: after SAVE_TOKEN stored another credential, no GET_DATA request made
\* under the new credential is answered with data fetched with the previous one
C26_NoDataOfPreviousCredential ==
    \A p \in Procs :
        (AnsweredData(p) /\ procs[p].tok # PreviousToken) =>
            procs[p].answer.data.tok # PreviousToken

\* no handler is running
AllAnswered == \A p \in Procs : procs[p].pc \in {"idle", "done"}

\* C28: SAVE_TOKEN changes only the token of the stored settings: when every
\* request is answered, the stored layout is that of the SAVE_SETTINGS
\* request that was served last
C28_SaveTokenKeepsLayout ==
    (AllAnswered /\ lastSaved # "none") => getSettings(store).layout = lastSaved

====
